---- MODULE Spec2Model ----
(***************************************************************************)
(* Model of the request scheduling and state-reconciliation engine of      *)
(* homebridge-sleepme-dockpro: ApiQueueManager (src/apiQueueManager.ts).   *)
(* The two insertion-ordered Maps of the class (queue, deviceStates) are   *)
(* sequences of entries in insertion order; the callbacks Map is a function*)
(* from keys to the list of registered callback ids.  Time is a discrete   *)
(* clock (now); a timer fires once it is due, after any other step taken   *)
(* at that instant.  The remote API and device are the environment.        *)
(* RetryService.retryApiCall (src/services/retry.ts) is a second state     *)
(* machine: one call of it, from the first invocation of the operation to  *)
(* the value it returns or the error it throws.  The accessory            *)
(* (src/platformAccessory.ts) is the scheduler's caller: its handlers, its *)
(* callbacks and the device status it keeps, whose control object may be   *)
(* the very object the scheduler keeps as lastSuccessfulState.             *)
(* ThermostatService's TargetHeatingCoolingState handler with              *)
(* RetryService.handleStateMismatch (src/services/thermostatService.ts,    *)
(* retry.ts) is a state machine of one handler call at a time, from the    *)
(* write to the value returned; PollingService (src/services/polling.ts)   *)
(* is the timer, the timer callbacks awaiting their fetch, and the calls   *)
(* of its owner.  Both await retryApiCall, which either returns a response *)
(* or throws; API responses are the environment's choice.  Two further     *)
(* machines cover handler calls of the thermostat service that overlap     *)
(* (each with its own closure and retryApiCall) and the target temperature *)
(* mapping of the accessory, with temperatures in tenths of a degree.      *)
(***************************************************************************)
EXTENDS Integers, Sequences, FiniteSets, TLC

\* ---------------------------------------------------------------- bounds
MaxTime == 3
MaxSteps == 3
MaxRetriesArg == 3
MaxInFlight == 2
MaxHandlers == 2

\* ------------------------------------------------- constructor parameters
\* The constructor takes them from the configuration (defaults 1000, 3, 5000
\* and 30000 ms); the model runs them on a clock of a few ticks.
minRequestInterval == 1
maxRetries == 1
retryBackoff == 2
consistencyCheckInterval == 2

\* ---------------------------------------------------- types/index.ts
DEFAULT_ACTIVE_POLLING_INTERVAL_SECONDS == 30
DEFAULT_STANDBY_POLLING_INTERVAL_MINUTES == 15
INITIAL_RETRY_DELAY_MS == 15000
MAX_RETRIES == 3
MAX_STATE_MISMATCH_RETRIES == 3
HIGH_TEMP_THRESHOLD_F == 115
HIGH_TEMP_TARGET_F == 999
LOW_TEMP_THRESHOLD_F == 55
LOW_TEMP_TARGET_F == -1

\* -------------------------------------------------------------- universes
Devices == {"d1"}
SetOps == {"setTemperatureFahrenheit", "setTemperatureCelsius", "setThermalControlStatus"}
Ops == SetOps \cup {"getDeviceStatus"}
Fields == {"set_temperature_f", "set_temperature_c", "thermal_control_status"}

\* the values a caller may pass as params[0] of each operation
ParamValues(operation) ==
  CASE operation = "setTemperatureFahrenheit" -> {70}
    [] operation = "setTemperatureCelsius" -> {21}
    [] operation = "setThermalControlStatus" -> {"standby", "active"}
    [] OTHER -> {}

\* the values the device may hold in each field of its Control
FieldValues(field) ==
  CASE field = "set_temperature_f" -> {68, 70}
    [] field = "set_temperature_c" -> {20, 21}
    [] OTHER -> {"standby", "active"}

\* the Control field each set operation writes (updatePendingState's switch)
OwnedField(operation) ==
  CASE operation = "setTemperatureFahrenheit" -> "set_temperature_f"
    [] operation = "setTemperatureCelsius" -> "set_temperature_c"
    [] OTHER -> "thermal_control_status"

\* JavaScript undefined / null
Undefined == [undefined |-> TRUE]
IsDefined(x) == x # Undefined

\* the empty object literal {}
EmptyObject == [f \in {} |-> 0]

\* JavaScript truthiness of a field value read from a Control
Truthy(obj, field) ==
  /\ field \in DOMAIN obj
  /\ IF field = "thermal_control_status" THEN obj[field] # "" ELSE obj[field] # 0

InitialControl ==
  [f \in Fields |->
     CASE f = "set_temperature_f" -> 68
       [] f = "set_temperature_c" -> 20
       [] OTHER -> "standby"]

NoRequest ==
  [deviceId |-> "", operation |-> "none", params |-> <<>>, timestamp |-> 0, retryCount |-> 0]

NoTimer == [kind |-> "none", at |-> 0]

VARIABLES
  queue,            \* Map<string, QueuedRequest>, in insertion order
  deviceStates,     \* Map<string, DeviceState>, in insertion order
  processing,       \* the processing flag
  lastProcessTime,  \* start time of the last dispatch
  scheduledTimeout, \* the pending timer, or NoTimer
  callbacks,        \* key -> list of registered callback ids
  inflight,         \* the requests whose API call is awaited
  now,              \* Date.now()
  device,           \* the remote device's Control, per device id
  lastEnq,          \* history: per key, params and callback of the last enqueue,
                    \* the number of enqueues since the key was last dispatched
                    \* and the params callers asked for since then
  cbLog,            \* history: the callback invocations, in order
  timers,           \* history: the timers set with setTimeout, neither fired nor cleared
  callerSet,        \* history: per device, the fields callers set in the pending patch
  ev,               \* history: the step that led to this state
  givenUp,          \* history: the keys of the control requests whose failure was
                    \* fanned out and that no caller has enqueued again since
  nSteps            \* the number of steps the environment has taken

\* one call of RetryService.retryApiCall
VARIABLES
  retryPc,          \* "none", or where the call stands: awaiting the "operation",
                    \* awaiting the "delay", "returned" or "thrown"
  maxRetriesArg,    \* the argument maxRetries
  currentAttempt,   \* the argument currentAttempt of the running activation
  calls,            \* history: the outcome of each invocation of the operation
  waits,            \* history: the delays waited, in ms
  retryResult       \* the value returned or the error thrown

managerVars == <<queue, deviceStates, processing, lastProcessTime, scheduledTimeout,
                 callbacks, inflight, now, device, lastEnq, cbLog, timers, callerSet, ev,
                 givenUp, nSteps>>

retryVars == <<retryPc, maxRetriesArg, currentAttempt, calls, waits, retryResult>>

\* the accessory (SleepmePlatformAccessory)
VARIABLES
  deviceStatus,     \* this.deviceStatus: null, or the status with its control
  aliased           \* this.deviceStatus.control and the lastSuccessfulState of
                    \* the scheduler are one and the same object

accessoryVars == <<deviceStatus, aliased>>

\* one call of the TargetHeatingCoolingState onSet handler of ThermostatService
VARIABLES
  expectedThermalState, \* this.expectedThermalState: "null", "standby" or "active"
  serviceStatus,        \* the deviceStatus the handlers close over: null, or
                        \* the status with its control
  onSetPc,              \* "idle", or where the handler stands: awaiting the
                        \* "set" (retryApiCall), the "wait" or the "reissue" of
                        \* handleStateMismatch, the "refresh" of the catch
                        \* block, "returned" or "thrown"
  expectedState,        \* the handler's targetState, the argument expectedState
  actualState,          \* the argument actualState of the running activation
  currentControl,       \* the argument currentControl
  retryCount,           \* the argument retryCount of the running activation
  outcomes,             \* history: the outcome of each re-issue of the command
  observed,             \* history: the states the API responses reported
  onSetResult           \* the control returned, or the error thrown

thermostatVars == <<expectedThermalState, serviceStatus, onSetPc, expectedState,
                    actualState, currentControl, retryCount, outcomes, observed,
                    onSetResult>>

\* the PollingService
VARIABLES
  config,                   \* the constructor's config: each interval given or absent
  activePollingIntervalMs,  \* this.activePollingIntervalMs
  standbyPollingIntervalMs, \* this.standbyPollingIntervalMs
  timeout,                  \* this.timeout: undefined, or the handle of the last
                            \* timer set, pending or fired, with the isActive and
                            \* the delay it was set with
  polls,                    \* the timer callbacks awaiting retryApiCall, each
                            \* with its isActive; cancelled is history: stopPolling
                            \* or updatePollingInterval was called meanwhile
  currentDeviceStatus,      \* this.currentDeviceStatus
  stopped,                  \* history: stopPolling or updatePollingInterval was
                            \* called and startPolling has not been since
  pollEv                    \* history: the step that led to this state

pollingVars == <<config, activePollingIntervalMs, standbyPollingIntervalMs, timeout,
                 polls, currentDeviceStatus, stopped, pollEv>>

\* the calls of the TargetHeatingCoolingState onSet handler that run at once
VARIABLES
  handlers,     \* the handler calls in the order HomeKit made them, each with
                \* its targetState, the currentAttempt of its retryApiCall and
                \* where it stands: awaiting the "operation", the "delay" or
                \* the "refresh", "returned" or "thrown"
  thermal,      \* the thermal_control_status of the device
  sentLog       \* history: the setThermalControlStatus calls sent, in order,
                \* each with its handler call and its state

overlapVars == <<handlers, thermal, sentLog>>

\* one write of the TargetTemperature characteristic and the read that follows
\* its confirmation; temperatures in degrees Celsius are kept in tenths
VARIABLES
  temperature   \* where the write stands ("write", "enqueued", "confirmed",
                \* "shown"), the value tempC written, the Fahrenheit value
                \* enqueued, the confirmed control and the value onGet returned

\* the services built on the RetryService
serviceVars == <<thermostatVars, pollingVars, overlapVars, temperature>>

\* the state of the components other than the ApiQueueManager
otherVars == <<retryVars, accessoryVars, serviceVars>>

vars == <<managerVars, otherVars>>

Keys == Devices \X Ops

\* ----------------------------------------------------- Map helper operators
getQueueKey(deviceId, operation) == <<deviceId, operation>>

KeyOf(request) == getQueueKey(request.deviceId, request.operation)

RECURSIVE IndexOfKey(_, _, _)
IndexOfKey(q, key, i) ==
  IF i > Len(q) THEN 0
  ELSE IF KeyOf(q[i]) = key THEN i
  ELSE IndexOfKey(q, key, i + 1)

QueueHas(q, key) == IndexOfKey(q, key, 1) # 0

QueueGet(q, key) == q[IndexOfKey(q, key, 1)]

\* Map.set appending a second entry for a key that is already present
QueueSetAppend(q, request) == Append(q, request)

\* Map.set: an existing key keeps its position, a new key is appended
QueueSet(q, request) ==
  LET i == IndexOfKey(q, KeyOf(request), 1)
  IN IF i = 0 THEN Append(q, request) ELSE [q EXCEPT ![i] = request]

\* Map.delete
QueueDelete(q, key) ==
  LET i == IndexOfKey(q, key, 1)
  IN IF i = 0 THEN q
     ELSE [j \in 1..(Len(q) - 1) |-> IF j < i THEN q[j] ELSE q[j + 1]]

RECURSIVE IndexOfDevice(_, _, _)
IndexOfDevice(ds, deviceId, i) ==
  IF i > Len(ds) THEN 0
  ELSE IF ds[i].deviceId = deviceId THEN i
  ELSE IndexOfDevice(ds, deviceId, i + 1)

StatesHas(ds, deviceId) == IndexOfDevice(ds, deviceId, 1) # 0

NewDeviceState(deviceId) ==
  [deviceId |-> deviceId, lastSuccessfulState |-> Undefined,
   pendingState |-> Undefined, lastError |-> Undefined]

\* if (!this.deviceStates.has(id)) this.deviceStates.set(id, {})
StatesEnsure(ds, deviceId) ==
  IF StatesHas(ds, deviceId) THEN ds ELSE Append(ds, NewDeviceState(deviceId))

\* getDeviceState: this.deviceStates.get(deviceId) || {}
getDeviceState(ds, deviceId) ==
  IF StatesHas(ds, deviceId) THEN ds[IndexOfDevice(ds, deviceId, 1)]
  ELSE NewDeviceState(deviceId)

\* ------------------------------------------------------------ the manager
\* The fields of one ApiQueueManager (with the two history fields that its
\* methods update), as the record the methods below transform.
Manager ==
  [queue |-> queue, deviceStates |-> deviceStates, processing |-> processing,
   lastProcessTime |-> lastProcessTime, scheduledTimeout |-> scheduledTimeout,
   callbacks |-> callbacks, lastEnq |-> lastEnq, cbLog |-> cbLog, timers |-> timers]

Max(a, b) == IF a > b THEN a ELSE b

\* scheduleProcessing whose delay ignores the time of the last dispatch
scheduleProcessingNoDelay(m, t) ==
  IF m.scheduledTimeout # NoTimer THEN m
  ELSE [m EXCEPT !.scheduledTimeout = [kind |-> "process", at |-> t],
                 !.timers = @ + 1]

scheduleProcessing(m, t) ==
  IF m.scheduledTimeout # NoTimer THEN m
  ELSE LET timeSinceLastProcess == t - m.lastProcessTime
           delay == Max(0, minRequestInterval - timeSinceLastProcess)
       IN [m EXCEPT !.scheduledTimeout = [kind |-> "process", at |-> t + delay],
                    !.timers = @ + 1]

\* { ...base, [field]: value }
Spread(base, field, value) ==
  [f \in (DOMAIN base) \cup {field} |-> IF f = field THEN value ELSE base[f]]

\* updatePendingState that replaces the pending patch instead of merging
updatePendingStateNoMerge(ds, deviceId, operation, params) ==
  LET ds1 == StatesEnsure(ds, deviceId)
      i == IndexOfDevice(ds1, deviceId, 1)
  IN [ds1 EXCEPT ![i].pendingState = Spread(EmptyObject, OwnedField(operation), params[1])]

updatePendingState(ds, deviceId, operation, params) ==
  LET ds1 == StatesEnsure(ds, deviceId)
      i == IndexOfDevice(ds1, deviceId, 1)
      deviceState == ds1[i]
      pendingState ==
        IF IsDefined(deviceState.pendingState) THEN deviceState.pendingState
        ELSE IF IsDefined(deviceState.lastSuccessfulState) THEN deviceState.lastSuccessfulState
        ELSE EmptyObject
  IN IF operation \in SetOps
     THEN [ds1 EXCEPT ![i].pendingState = Spread(pendingState, OwnedField(operation), params[1])]
     ELSE ds1

\* callback = 0 stands for an enqueue without a callback
enqueue(m, t, deviceId, operation, params, callback) ==
  LET key == getQueueKey(deviceId, operation)
      request == [deviceId |-> deviceId, operation |-> operation, params |-> params,
                  timestamp |-> t, retryCount |-> 0]
      cbs == IF callback # 0
             THEN [m.callbacks EXCEPT ![key] = Append(@, callback)]
             ELSE m.callbacks
      ds == IF operation # "getDeviceStatus"
            THEN updatePendingState(m.deviceStates, deviceId, operation, params)
            ELSE m.deviceStates
      m1 == [m EXCEPT !.callbacks = cbs,
                      !.deviceStates = ds,
                      !.queue = QueueSet(m.queue, request),
                      !.lastEnq[key] = [params |-> params, n |-> IF @.n < 2 THEN @.n + 1 ELSE 2,
                                        cb |-> callback,
                                        asked |-> IF callback # 0 THEN params ELSE @.asked]]
  IN scheduleProcessing(m1, t)

\* the sort by timestamp in descending order
RECURSIVE OldestIndexDescending(_, _, _)
OldestIndexDescending(q, i, best) ==
  IF i > Len(q) THEN best
  ELSE OldestIndexDescending(q, i + 1, IF q[i].timestamp > q[best].timestamp THEN i ELSE best)

\* the index of the entry [...entries].sort(by timestamp)[0] (the sort is stable)
RECURSIVE OldestIndex(_, _, _)
OldestIndex(q, i, best) ==
  IF i > Len(q) THEN best
  ELSE OldestIndex(q, i + 1, IF q[i].timestamp < q[best].timestamp THEN i ELSE best)

Oldest(q) == q[OldestIndex(q, 1, 1)]

\* a comparison over every field of the fetched control
statesAreDifferentAllFields(apiState, pendingState) ==
  \E key \in DOMAIN apiState :
     \/ key \notin DOMAIN pendingState
     \/ apiState[key] # pendingState[key]

\* every key of a pending patch holds a value (no caller passes undefined),
\* so the test pendingState[key] !== undefined is true of each of them
statesAreDifferent(apiState, pendingState) ==
  \E key \in DOMAIN pendingState :
     \/ key \notin DOMAIN apiState
     \/ apiState[key] # pendingState[key]

reapplyPendingState(m, t, deviceId, pendingState) ==
  LET m1 == IF Truthy(pendingState, "thermal_control_status")
            THEN enqueue(m, t, deviceId, "setThermalControlStatus",
                         <<pendingState["thermal_control_status"]>>, 0)
            ELSE m
  IN IF Truthy(pendingState, "set_temperature_f")
     THEN enqueue(m1, t, deviceId, "setTemperatureFahrenheit",
                  <<pendingState["set_temperature_f"]>>, 0)
     ELSE m1

\* callbacks.forEach(callback => callback(result)): the invocations, in order
Invocations(cbs, success) ==
  [i \in 1..Len(cbs) |-> [id |-> cbs[i], success |-> success]]

\* the fan-out without callbacks.delete(key)
notifyCallbacksKeep(m, key, success) ==
  [m EXCEPT !.cbLog = @ \o Invocations(m.callbacks[key], success)]

\* callbacks.forEach(callback => callback(result)); callbacks.delete(key)
notifyCallbacks(m, key, success) ==
  [m EXCEPT !.cbLog = @ \o Invocations(m.callbacks[key], success),
            !.callbacks[key] = <<>>]

\* handleSuccess for a control operation that keeps the pending patch
handleSuccessKeepPending(m, t, request, data) ==
  IF request.operation # "getDeviceStatus"
  THEN LET ds1 == StatesEnsure(m.deviceStates, request.deviceId)
           i == IndexOfDevice(ds1, request.deviceId, 1)
       IN notifyCallbacks(
            [m EXCEPT !.deviceStates = [ds1 EXCEPT ![i].lastSuccessfulState = data]],
            KeyOf(request), TRUE)
  ELSE notifyCallbacks(m, KeyOf(request), TRUE)

handleSuccess(m, t, request, data) ==
  LET m1 ==
        IF request.operation # "getDeviceStatus"
        THEN LET ds1 == StatesEnsure(m.deviceStates, request.deviceId)
                 i == IndexOfDevice(ds1, request.deviceId, 1)
             IN [m EXCEPT !.deviceStates =
                   [ds1 EXCEPT ![i].lastSuccessfulState = data,
                               ![i].pendingState = Undefined,
                               ![i].lastError = Undefined]]
        ELSE IF "control" \in DOMAIN data
        THEN LET i == IndexOfDevice(m.deviceStates, request.deviceId, 1)
             IN IF i # 0 /\ IsDefined(m.deviceStates[i].pendingState)
                THEN LET apiControl == data.control
                         pendingControl == m.deviceStates[i].pendingState
                     IN IF statesAreDifferent(apiControl, pendingControl)
                        THEN reapplyPendingState(m, t, request.deviceId, pendingControl)
                        ELSE [m EXCEPT !.deviceStates[i].lastSuccessfulState = apiControl,
                                       !.deviceStates[i].pendingState = Undefined]
                ELSE m
        ELSE m
  IN notifyCallbacks(m1, KeyOf(request), TRUE)

\* handleError that also retries the attempt made with retryCount = maxRetries
handleErrorRetryAlways(m, t, request, statusCode) ==
  LET ds1 == StatesEnsure(m.deviceStates, request.deviceId)
      i == IndexOfDevice(ds1, request.deviceId, 1)
      m1 == [m EXCEPT !.deviceStates =
               [ds1 EXCEPT ![i].lastError = [code |-> statusCode, timestamp |-> t]]]
  IN IF request.retryCount <= maxRetries
     THEN LET backoffTime == retryBackoff * (request.retryCount + 1)
              retryRequest == [request EXCEPT !.retryCount = request.retryCount + 1,
                                              !.timestamp = t + backoffTime]
          IN [m1 EXCEPT !.queue = QueueSet(m1.queue, retryRequest)]
     ELSE notifyCallbacks(m1, KeyOf(request), FALSE)

\* statusCode is error.response?.status || 0
handleError(m, t, request, statusCode) ==
  LET ds1 == StatesEnsure(m.deviceStates, request.deviceId)
      i == IndexOfDevice(ds1, request.deviceId, 1)
      m1 == [m EXCEPT !.deviceStates =
               [ds1 EXCEPT ![i].lastError = [code |-> statusCode, timestamp |-> t]]]
  IN IF request.retryCount < maxRetries
     THEN LET backoffTime == retryBackoff * (request.retryCount + 1)
              retryRequest == [request EXCEPT !.retryCount = request.retryCount + 1,
                                              !.timestamp = t + backoffTime]
          IN [m1 EXCEPT !.queue = QueueSet(m1.queue, retryRequest)]
     ELSE notifyCallbacks(m1, KeyOf(request), FALSE)

\* scheduleConsistencyCheck that clears the timer and sets none
\* if (this.scheduledTimeout) { clearTimeout(...); this.scheduledTimeout = null }
clearScheduledTimeout(m) ==
  IF m.scheduledTimeout # NoTimer
  THEN [m EXCEPT !.scheduledTimeout = NoTimer, !.timers = @ - 1]
  ELSE m

scheduleConsistencyCheckNever(m, t) ==
  clearScheduledTimeout(m)

scheduleConsistencyCheck(m, t) ==
  LET m1 == clearScheduledTimeout(m)
  IN IF Len(m1.deviceStates) = 0 THEN m1
     ELSE [m1 EXCEPT !.scheduledTimeout =
                       [kind |-> "check", at |-> t + consistencyCheckInterval],
                     !.timers = @ + 1]

\* the finally block of processQueue
processQueueFinally(m, t) ==
  LET m1 == [m EXCEPT !.processing = FALSE]
  IN IF Len(m1.queue) > 0 THEN scheduleProcessing(m1, t)
     ELSE scheduleConsistencyCheck(m1, t)

RECURSIVE performConsistencyCheckFrom(_, _, _)
performConsistencyCheckFrom(m, t, i) ==
  IF i > Len(m.deviceStates) THEN m
  ELSE performConsistencyCheckFrom(
         IF IsDefined(m.deviceStates[i].pendingState)
         THEN enqueue(m, t, m.deviceStates[i].deviceId, "getDeviceStatus", <<>>, 0)
         ELSE m,
         t, i + 1)

performConsistencyCheck(m, t) == performConsistencyCheckFrom(m, t, 1)

RECURSIVE refreshAllDevicesFrom(_, _, _)
refreshAllDevicesFrom(m, t, i) ==
  IF i > Len(m.deviceStates) THEN m
  ELSE refreshAllDevicesFrom(
         enqueue(m, t, m.deviceStates[i].deviceId, "getDeviceStatus", <<>>, 0), t, i + 1)

refreshAllDevices(m, t) == refreshAllDevicesFrom(m, t, 1)

\* the guard of processQueue without the test of the processing flag
processQueueStartsUnguarded(m) == Len(m.queue) # 0

\* processQueue up to its await: TRUE when the guard lets a dispatch start
processQueueStarts(m) == ~m.processing /\ Len(m.queue) # 0

processQueueBegin(m, t) ==
  LET request == Oldest(m.queue)
  IN [m EXCEPT !.processing = TRUE,
               !.lastProcessTime = t,
               !.queue = QueueDelete(m.queue, KeyOf(request)),
               !.lastEnq[KeyOf(request)].n = 0,
               !.lastEnq[KeyOf(request)].asked = <<>>]

\* ------------------------------------------------------------------ steps
\* Date.now() at construction: later than minRequestInterval after time 0,
\* and late enough for one dispatch and one idle consistency check before it
StartTime == consistencyCheckInterval + minRequestInterval

StatusCodes == {500}

\* the operations the accessory enqueues (platformAccessory.ts)
CallerOps == Ops \ {"setTemperatureCelsius"}

Event(kind, request, data, n, gap, registered, pre) ==
  [kind |-> kind, req |-> request, data |-> data, n |-> n, gap |-> gap,
   registered |-> registered, pre |-> pre]

PendingOf(ds, deviceId) == getDeviceState(ds, deviceId).pendingState

\* the history of the fields callers set: it is emptied with the pending patch
Track(m, deviceId, field) ==
  callerSet' =
    [d \in Devices |->
       IF ~IsDefined(PendingOf(m.deviceStates, d)) THEN {}
       ELSE IF d = deviceId
       THEN (IF IsDefined(PendingOf(deviceStates, d)) THEN callerSet[d] ELSE {}) \cup {field}
       ELSE callerSet[d]]

Install(m) ==
  /\ queue' = m.queue
  /\ deviceStates' = m.deviceStates
  /\ processing' = m.processing
  /\ lastProcessTime' = m.lastProcessTime
  /\ scheduledTimeout' = m.scheduledTimeout
  /\ callbacks' = m.callbacks
  /\ lastEnq' = m.lastEnq
  /\ cbLog' = m.cbLog
  /\ timers' = m.timers
  /\ callerSet' = [d \in Devices |->
                     IF IsDefined(PendingOf(m.deviceStates, d)) THEN callerSet[d] ELSE {}]

InitEnvironment ==
  /\ inflight = <<>>
  /\ now = StartTime
  /\ device = [d \in Devices |-> InitialControl]
  /\ lastEnq = [k \in Keys |-> [params |-> <<>>, n |-> 0, cb |-> 0, asked |-> <<>>]]
  /\ cbLog = <<>>
  /\ timers = 0
  /\ callerSet = [d \in Devices |-> {}]
  /\ ev = Event("init", NoRequest, EmptyObject, 0, 0, <<>>, Undefined)
  /\ givenUp = {}
  /\ nSteps = 0

\* no call of retryApiCall is under way
RetryIdle ==
  /\ retryPc = "none"
  /\ maxRetriesArg = 0
  /\ currentAttempt = 0
  /\ calls = <<>>
  /\ waits = <<>>
  /\ retryResult = Undefined

\* no accessory uses the manager
AccessoryIdle ==
  /\ deviceStatus = Undefined
  /\ aliased = FALSE

\* no handler of the ThermostatService has run
ThermostatIdle ==
  /\ expectedThermalState = "null"
  /\ serviceStatus = Undefined
  /\ onSetPc = "idle"
  /\ expectedState = "standby"
  /\ actualState = "standby"
  /\ currentControl = Undefined
  /\ retryCount = 0
  /\ outcomes = <<>>
  /\ observed = <<>>
  /\ onSetResult = Undefined

\* a step of the poller, as pollEv records it
PollEvent(kind, isActive, status, threw, cancelled, wasStopped, delivered, n) ==
  [kind |-> kind, isActive |-> isActive, status |-> status, threw |-> threw,
   cancelled |-> cancelled, stopped |-> wasStopped, delivered |-> delivered, n |-> n]

NoPollEvent == PollEvent("init", FALSE, Undefined, FALSE, FALSE, FALSE, <<>>, 0)

Absent == [given |-> FALSE, value |-> 0]
Given(value) == [given |-> TRUE, value |-> value]

\* a poller built without a config that was never started
PollingIdle ==
  /\ config = [activePollingIntervalSeconds |-> Absent,
               standbyPollingIntervalMinutes |-> Absent]
  /\ activePollingIntervalMs = DEFAULT_ACTIVE_POLLING_INTERVAL_SECONDS * 1000
  /\ standbyPollingIntervalMs = DEFAULT_STANDBY_POLLING_INTERVAL_MINUTES * 60 * 1000
  /\ timeout = Undefined
  /\ polls = <<>>
  /\ currentDeviceStatus = Undefined
  /\ stopped = FALSE
  /\ pollEv = NoPollEvent

OverlapIdle ==
  /\ handlers = <<>>
  /\ thermal = "standby"
  /\ sentLog = <<>>

\* the value tempC is about to be written
NoWrite(tempC) ==
  [pc |-> "write", tempC |-> tempC, apiTemp |-> 0,
   control |-> [set_temperature_f |-> 0, set_temperature_c |-> 0], shown |-> 0]

TemperatureIdle == temperature = NoWrite(210)

ServicesIdle == ThermostatIdle /\ PollingIdle /\ OverlapIdle /\ TemperatureIdle

\* the manager after construction
Fresh ==
  /\ queue = <<>>
  /\ deviceStates = <<>>
  /\ processing = FALSE
  /\ lastProcessTime = 0
  /\ scheduledTimeout = NoTimer
  /\ callbacks = [k \in Keys |-> <<>>]
  /\ InitEnvironment

Init == Fresh /\ RetryIdle /\ AccessoryIdle /\ ServicesIdle

\* the manager after one control request was dispatched and confirmed and the
\* consistency check that followed found nothing pending
InitConfirmed ==
  /\ queue = <<>>
  /\ deviceStates = <<[NewDeviceState("d1") EXCEPT !.lastSuccessfulState = InitialControl]>>
  /\ processing = FALSE
  /\ lastProcessTime = StartTime - consistencyCheckInterval
  /\ scheduledTimeout = NoTimer
  /\ callbacks = [k \in Keys |-> <<>>]
  /\ InitEnvironment
  /\ RetryIdle
  /\ AccessoryIdle
  /\ ServicesIdle

\* a caller calls enqueue with one of the operations ops and a callback
CallerEnqueue(ops) ==
  /\ nSteps < MaxSteps
  /\ \E d \in Devices, op \in ops :
       \E params \in IF op = "getDeviceStatus" THEN {<<>>}
                     ELSE {<<v>> : v \in ParamValues(op)} :
          LET m == enqueue(Manager, now, d, op, params, nSteps + 1)
          IN /\ queue' = m.queue
             /\ deviceStates' = m.deviceStates
             /\ processing' = m.processing
             /\ lastProcessTime' = m.lastProcessTime
             /\ scheduledTimeout' = m.scheduledTimeout
             /\ callbacks' = m.callbacks
             /\ lastEnq' = m.lastEnq
             /\ cbLog' = m.cbLog
             /\ timers' = m.timers
             /\ IF op = "getDeviceStatus"
                THEN UNCHANGED callerSet
                ELSE Track(m, d, OwnedField(op))
             /\ ev' = Event("enqueue",
                            [deviceId |-> d, operation |-> op, params |-> params,
                             timestamp |-> now, retryCount |-> 0],
                            EmptyObject, 0, 0, <<>>, PendingOf(deviceStates, d))
             /\ givenUp' = givenUp \ {getQueueKey(d, op)}
  /\ nSteps' = nSteps + 1
  /\ UNCHANGED <<inflight, now, device, otherVars>>

\* a caller calls refreshAllDevices
CallerRefresh ==
  /\ nSteps < MaxSteps
  /\ Len(deviceStates) > 0
  /\ Install(refreshAllDevices(Manager, now))
  /\ ev' = Event("refresh", NoRequest, EmptyObject, 0, 0, <<>>, Undefined)
  /\ nSteps' = nSteps + 1
  /\ UNCHANGED <<inflight, now, device, givenUp, otherVars>>

TimerDue(kind) ==
  /\ scheduledTimeout.kind = kind
  /\ now >= scheduledTimeout.at

\* the callback without this.scheduledTimeout = null
timerFiresKeepsField(m) == [m EXCEPT !.timers = @ - 1]

\* the timer is spent and its callback starts with this.scheduledTimeout = null
timerFires(m) == [m EXCEPT !.scheduledTimeout = NoTimer, !.timers = @ - 1]

\* the dispatch timer fires and processQueue starts an API call
TimerDispatch ==
  /\ TimerDue("process")
  /\ LET m0 == timerFires(Manager)
     IN /\ processQueueStarts(m0)
        /\ Install(processQueueBegin(m0, now))
        /\ inflight' = Append(inflight, Oldest(m0.queue))
        /\ ev' = Event("dispatch", Oldest(m0.queue), EmptyObject,
                       lastEnq[KeyOf(Oldest(m0.queue))].n, now - lastProcessTime,
                       lastEnq[KeyOf(Oldest(m0.queue))].asked, Undefined)
  /\ UNCHANGED <<now, device, givenUp, nSteps, otherVars>>

\* the dispatch timer fires and processQueue returns at once
TimerNoDispatch ==
  /\ TimerDue("process")
  /\ LET m0 == timerFires(Manager)
     IN /\ ~processQueueStarts(m0)
        /\ Install(m0)
  /\ ev' = Event("idle", NoRequest, EmptyObject, 0, 0, <<>>, Undefined)
  /\ UNCHANGED <<inflight, now, device, givenUp, nSteps, otherVars>>

\* the consistency-check timer fires
TimerCheck ==
  /\ TimerDue("check")
  /\ Install(performConsistencyCheck(timerFires(Manager), now))
  /\ ev' = Event("check", NoRequest, EmptyObject, Len(queue), 0, <<>>, Undefined)
  /\ UNCHANGED <<inflight, now, device, givenUp, nSteps, otherVars>>

\* the device's Control after the API call of a request has been served
Served(control, request) ==
  IF request.operation \in SetOps
  THEN [control EXCEPT ![OwnedField(request.operation)] = request.params[1]]
  ELSE control

Remove(seq, i) ==
  [j \in 1..(Len(seq) - 1) |-> IF j < i THEN seq[j] ELSE seq[j + 1]]

\* an awaited API call resolves: handleSuccess, then the finally block
ApiSuccess ==
  /\ \E i \in 1..Len(inflight) :
       LET request == inflight[i]
           d == request.deviceId
           control == Served(device[d], request)
           data == IF request.operation = "getDeviceStatus"
                   THEN [control |-> control] ELSE control
           m == processQueueFinally(handleSuccess(Manager, now, request, data), now)
       IN /\ device' = [device EXCEPT ![d] = control]
          /\ Install(m)
          /\ ev' = Event("success", request, control, 0, 0, callbacks[KeyOf(request)],
                         PendingOf(deviceStates, d))
          /\ inflight' = Remove(inflight, i)
  /\ UNCHANGED <<now, givenUp, nSteps, otherVars>>

\* an awaited API call rejects: handleError, then the finally block
ApiError ==
  /\ nSteps < MaxSteps
  /\ \E i \in 1..Len(inflight), statusCode \in StatusCodes :
       LET request == inflight[i]
       IN /\ Install(processQueueFinally(handleError(Manager, now, request, statusCode), now))
          /\ ev' = Event("error", request, EmptyObject, 0, 0, callbacks[KeyOf(request)],
                         PendingOf(deviceStates, request.deviceId))
          /\ inflight' = Remove(inflight, i)
          /\ givenUp' = IF /\ request.operation \in SetOps
                           /\ request.retryCount >= maxRetries
                           /\ ~QueueHas(queue, KeyOf(request))
                        THEN givenUp \cup {KeyOf(request)}
                        ELSE givenUp
  /\ nSteps' = nSteps + 1
  /\ UNCHANGED <<now, device, otherVars>>

\* the clock advances; a timer that is due fires before it does
Tick ==
  /\ now < StartTime + MaxTime
  /\ scheduledTimeout # NoTimer => now < scheduledTimeout.at
  /\ now' = now + 1
  /\ UNCHANGED <<queue, deviceStates, processing, lastProcessTime, scheduledTimeout,
                 callbacks, inflight, device, lastEnq, cbLog, timers, callerSet, ev, givenUp,
                 nSteps, otherVars>>

\* the device's Control is changed from outside (its buttons, another app)
ExternalChange ==
  /\ nSteps < MaxSteps
  /\ \E d \in Devices, f \in Fields :
       \E v \in FieldValues(f) \ {device[d][f]} :
          device' = [device EXCEPT ![d][f] = v]
  /\ nSteps' = nSteps + 1
  /\ UNCHANGED <<queue, deviceStates, processing, lastProcessTime, scheduledTimeout,
                 callbacks, inflight, now, lastEnq, cbLog, timers, callerSet, ev, givenUp,
                 otherVars>>

\* the accessory as the caller (it never calls refreshAllDevices)
Next ==
  \/ CallerEnqueue(CallerOps)
  \/ TimerDispatch
  \/ TimerNoDispatch
  \/ TimerCheck
  \/ ApiSuccess
  \/ ApiError
  \/ Tick
  \/ ExternalChange

Spec == Init /\ [][Next]_vars

\* any caller of the public interface, from a fresh or a confirmed manager
NextAny ==
  \/ CallerEnqueue(Ops)
  \/ CallerRefresh
  \/ TimerDispatch
  \/ TimerNoDispatch
  \/ TimerCheck
  \/ ApiSuccess
  \/ ApiError
  \/ Tick
  \/ ExternalChange

SpecAny == (Init \/ InitConfirmed) /\ [][NextAny]_vars

\* Node runs a timer callback once the timer is due and settles every awaited
\* API call (the client answers or times out), and time passes
Fairness ==
  /\ WF_vars(TimerDispatch)
  /\ WF_vars(TimerNoDispatch)
  /\ WF_vars(TimerCheck)
  /\ WF_vars(ApiSuccess)
  /\ WF_vars(Tick)

\* the scheduler on its own with a device nobody else changes
NextQuiet ==
  \/ CallerEnqueue(CallerOps)
  \/ TimerDispatch
  \/ TimerNoDispatch
  \/ TimerCheck
  \/ ApiSuccess
  \/ ApiError
  \/ Tick

SpecFair == Init /\ [][NextQuiet]_vars /\ Fairness

\* ------------------------------------------------------------ the accessory
\* the values HomeKit writes to TargetTemperature (degrees Celsius)
TargetTemperatures == {21}

\* Math.round((tempC * (9 / 5)) + 32) for a whole tempC
toFahrenheit(tempC) == ((tempC * 18 + 5) \div 10) + 32

\* a mapping whose thresholds are themselves out of range
apiTemperatureInclusive(tempF) ==
  IF tempF >= HIGH_TEMP_THRESHOLD_F THEN HIGH_TEMP_TARGET_F
  ELSE IF tempF <= LOW_TEMP_THRESHOLD_F THEN LOW_TEMP_TARGET_F
  ELSE tempF

\* the temperature the TargetTemperature handler sends to the API
apiTemperature(tempF) ==
  IF tempF > HIGH_TEMP_THRESHOLD_F THEN HIGH_TEMP_TARGET_F
  ELSE IF tempF < LOW_TEMP_THRESHOLD_F THEN LOW_TEMP_TARGET_F
  ELSE tempF

\* assignments to fields of a control object
Patch(control, patch) ==
  [f \in (DOMAIN control) \cup (DOMAIN patch) |->
     IF f \in DOMAIN patch THEN patch[f] ELSE control[f]]

\* this.deviceStatus.control.<field> = value, for the fields of patch: the
\* object written is this.deviceStatus.control, and it is the scheduler's
\* lastSuccessfulState when the two are one object
writeControl(m, deviceId, patch) ==
  LET i == IndexOfDevice(m.deviceStates, deviceId, 1)
  IN IF IsDefined(deviceStatus) /\ aliased /\ i # 0
     THEN [m EXCEPT !.deviceStates[i].lastSuccessfulState = Patch(@, patch)]
     ELSE m

FreshManager ==
  [queue |-> <<>>, deviceStates |-> <<>>, processing |-> FALSE, lastProcessTime |-> 0,
   scheduledTimeout |-> NoTimer, callbacks |-> [k \in Keys |-> <<>>],
   lastEnq |-> [k \in Keys |-> [params |-> <<>>, n |-> 0, cb |-> 0, asked |-> <<>>]], cbLog |-> <<>>,
   timers |-> 0]

IsManager(m) ==
  /\ queue = m.queue
  /\ deviceStates = m.deviceStates
  /\ processing = m.processing
  /\ lastProcessTime = m.lastProcessTime
  /\ scheduledTimeout = m.scheduledTimeout
  /\ callbacks = m.callbacks
  /\ lastEnq = m.lastEnq
  /\ cbLog = m.cbLog
  /\ timers = m.timers

\* the accessory after its constructor, which ends with enqueueGetDeviceStatus
InitAccessory ==
  /\ IsManager(enqueue(FreshManager, StartTime, "d1", "getDeviceStatus", <<>>, 1))
  /\ inflight = <<>>
  /\ now = StartTime
  /\ device = [d \in Devices |-> InitialControl]
  /\ callerSet = [d \in Devices |-> {}]
  /\ ev = Event("poll", NoRequest, EmptyObject, 0, 0, <<>>, Undefined)
  /\ givenUp = {}
  /\ nSteps = 1
  /\ AccessoryIdle
  /\ RetryIdle
  /\ ServicesIdle

LastSuccessfulOf(ds, deviceId) == getDeviceState(ds, deviceId).lastSuccessfulState

\* a handler of the accessory ends with enqueue<Operation>(deviceId, ...); m0
\* is the manager as the handler's writes left it
AccessoryEnqueue(kind, m0, d, op, params) ==
  LET m == enqueue(m0, now, d, op, params, nSteps + 1)
  IN /\ queue' = m.queue
     /\ deviceStates' = m.deviceStates
     /\ processing' = m.processing
     /\ lastProcessTime' = m.lastProcessTime
     /\ scheduledTimeout' = m.scheduledTimeout
     /\ callbacks' = m.callbacks
     /\ lastEnq' = m.lastEnq
     /\ cbLog' = m.cbLog
     /\ timers' = m.timers
     /\ IF op = "getDeviceStatus"
        THEN UNCHANGED callerSet
        ELSE Track(m, d, OwnedField(op))
     /\ ev' = Event(kind,
                    [deviceId |-> d, operation |-> op, params |-> params,
                     timestamp |-> now, retryCount |-> 0],
                    LastSuccessfulOf(deviceStates, d), 0, 0, <<>>,
                    PendingOf(deviceStates, d))
     /\ givenUp' = givenUp \ {getQueueKey(d, op)}
     /\ nSteps' = nSteps + 1
     /\ UNCHANGED <<inflight, now, device, retryVars, serviceVars>>

\* the polling timer of scheduleNextCheck fires: enqueueGetDeviceStatus
ScheduledPoll ==
  /\ nSteps < MaxSteps
  /\ AccessoryEnqueue("poll", Manager, "d1", "getDeviceStatus", <<>>)
  /\ UNCHANGED accessoryVars

\* TargetHeatingCoolingState.onSet(value)
OnSetTargetHeatingCoolingState ==
  /\ nSteps < MaxSteps
  /\ \E targetState \in {"standby", "active"} :
       LET patch == [f \in {"thermal_control_status"} |-> targetState]
       IN /\ deviceStatus' = IF IsDefined(deviceStatus)
                             THEN [deviceStatus EXCEPT !.control = Patch(@, patch)]
                             ELSE deviceStatus
          /\ AccessoryEnqueue("onSet", writeControl(Manager, "d1", patch), "d1",
                              "setThermalControlStatus", <<targetState>>)
  /\ UNCHANGED aliased

\* TargetTemperature.onSet(value)
OnSetTargetTemperature ==
  /\ nSteps < MaxSteps
  /\ \E tempC \in TargetTemperatures :
       LET tempF == toFahrenheit(tempC)
           patch == [f \in {"set_temperature_c", "set_temperature_f"} |->
                       IF f = "set_temperature_c" THEN tempC ELSE tempF]
       IN /\ deviceStatus' = IF IsDefined(deviceStatus)
                             THEN [deviceStatus EXCEPT !.control = Patch(@, patch)]
                             ELSE deviceStatus
          /\ AccessoryEnqueue("onSet", writeControl(Manager, "d1", patch), "d1",
                              "setTemperatureFahrenheit", <<apiTemperature(tempF)>>)
  /\ UNCHANGED aliased

\* handleSuccess keeps the response (or its control) as lastSuccessfulState
storesResponse(m, request, data) ==
  \/ request.operation # "getDeviceStatus"
  \/ /\ IsDefined(PendingOf(m.deviceStates, request.deviceId))
     /\ ~statesAreDifferent(data.control, PendingOf(m.deviceStates, request.deviceId))

\* an awaited API call resolves: handleSuccess, in which the callbacks of the
\* accessory run, then the finally block
AccessoryApiSuccess ==
  /\ \E i \in 1..Len(inflight) :
       LET request == inflight[i]
           d == request.deviceId
           control == Served(device[d], request)
           data == IF request.operation = "getDeviceStatus"
                   THEN [control |-> control] ELSE control
           registered == callbacks[KeyOf(request)]
           m == processQueueFinally(handleSuccess(Manager, now, request, data), now)
       IN /\ device' = [device EXCEPT ![d] = control]
          /\ Install(m)
          /\ ev' = Event("success", request, control, 0, 0, registered,
                         PendingOf(deviceStates, d))
          /\ inflight' = Remove(inflight, i)
          /\ IF registered = <<>>
             THEN /\ UNCHANGED deviceStatus
                  /\ aliased' = (aliased /\ ~storesResponse(Manager, request, data))
             ELSE IF request.operation = "getDeviceStatus"
             THEN /\ deviceStatus' = data
                  /\ aliased' = storesResponse(Manager, request, data)
             ELSE IF IsDefined(deviceStatus)
             THEN /\ deviceStatus' = [deviceStatus EXCEPT !.control = data]
                  /\ aliased' = TRUE
             ELSE /\ UNCHANGED deviceStatus
                  /\ aliased' = FALSE
  /\ UNCHANGED <<now, givenUp, nSteps, retryVars, serviceVars>>

\* the failure callbacks of the control requests call enqueueGetDeviceStatus
RECURSIVE failureCallbacks(_, _, _, _, _)
failureCallbacks(m, t, request, registered, i) ==
  IF i > Len(registered) \/ request.operation = "getDeviceStatus" THEN m
  ELSE failureCallbacks(
         enqueue(m, t, request.deviceId, "getDeviceStatus", <<>>, 10 * registered[i]),
         t, request, registered, i + 1)

\* an awaited API call rejects: handleError, in which (when no retry is left)
\* the callbacks of the accessory run, then the finally block
AccessoryApiError ==
  /\ nSteps < MaxSteps
  /\ \E i \in 1..Len(inflight), statusCode \in StatusCodes :
       LET request == inflight[i]
           registered == callbacks[KeyOf(request)]
           m1 == handleError(Manager, now, request, statusCode)
           m2 == IF request.retryCount < maxRetries THEN m1
                 ELSE failureCallbacks(m1, now, request, registered, 1)
       IN /\ Install(processQueueFinally(m2, now))
          /\ ev' = Event("error", request, EmptyObject, 0, 0, registered,
                         PendingOf(deviceStates, request.deviceId))
          /\ inflight' = Remove(inflight, i)
          /\ givenUp' = IF /\ request.operation \in SetOps
                           /\ request.retryCount >= maxRetries
                           /\ ~QueueHas(queue, KeyOf(request))
                        THEN givenUp \cup {KeyOf(request)}
                        ELSE givenUp
  /\ nSteps' = nSteps + 1
  /\ UNCHANGED <<now, device, otherVars>>

NextAccessory ==
  \/ ScheduledPoll
  \/ OnSetTargetHeatingCoolingState
  \/ OnSetTargetTemperature
  \/ TimerDispatch
  \/ TimerNoDispatch
  \/ TimerCheck
  \/ AccessoryApiSuccess
  \/ AccessoryApiError
  \/ Tick
  \/ ExternalChange

SpecAccessory == InitAccessory /\ [][NextAccessory]_vars

\* ------------------------------------------------ RetryService.retryApiCall
\* what the operation resolves with and what it rejects with
Results == {"r1", "r2"}
Errors == {"e1", "e2"}

RECURSIVE Pow2(_)
Pow2(n) == IF n = 0 THEN 1 ELSE 2 * Pow2(n - 1)

\* the retry test with the bound one attempt short
shouldRetryStrict(attempt, maxRetriesGiven) == attempt < maxRetriesGiven

\* the retry test with the bound one attempt long
shouldRetryLong(attempt, maxRetriesGiven) == attempt <= maxRetriesGiven + 1

\* if (currentAttempt <= maxRetries)
shouldRetry(attempt, maxRetriesGiven) == attempt <= maxRetriesGiven

\* a delay that grows by INITIAL_RETRY_DELAY_MS with each attempt
retryDelayLinear(attempt) == INITIAL_RETRY_DELAY_MS * attempt

\* INITIAL_RETRY_DELAY_MS * Math.pow(2, currentAttempt - 1)
retryDelay(attempt) == INITIAL_RETRY_DELAY_MS * Pow2(attempt - 1)

\* retryApiCall(operation, operationName, maxRetries) is called
InitRetry ==
  /\ Fresh
  /\ AccessoryIdle
  /\ ServicesIdle
  /\ retryPc = "operation"
  /\ maxRetriesArg \in 0..MaxRetriesArg
  /\ currentAttempt = 1
  /\ calls = <<>>
  /\ waits = <<>>
  /\ retryResult = Undefined

\* await operation() resolves: the value is returned through every activation
OperationResolves ==
  /\ retryPc = "operation"
  /\ \E value \in Results :
       /\ calls' = Append(calls, [ok |-> TRUE, value |-> value])
       /\ retryResult' = [ok |-> TRUE, value |-> value]
  /\ retryPc' = "returned"
  /\ UNCHANGED <<maxRetriesArg, currentAttempt, waits, managerVars, accessoryVars, serviceVars>>

\* await operation() rejects: the catch block waits, or rethrows the error
OperationRejects ==
  /\ retryPc = "operation"
  /\ \E error \in Errors :
       /\ calls' = Append(calls, [ok |-> FALSE, value |-> error])
       /\ IF shouldRetry(currentAttempt, maxRetriesArg)
          THEN /\ retryPc' = "delay"
               /\ UNCHANGED retryResult
          ELSE /\ retryPc' = "thrown"
               /\ retryResult' = [ok |-> FALSE, value |-> error]
  /\ UNCHANGED <<maxRetriesArg, currentAttempt, waits, managerVars, accessoryVars, serviceVars>>

\* the setTimeout of the catch block fires: retryApiCall(..., currentAttempt + 1)
DelayElapses ==
  /\ retryPc = "delay"
  /\ waits' = Append(waits, retryDelay(currentAttempt))
  /\ currentAttempt' = currentAttempt + 1
  /\ retryPc' = "operation"
  /\ UNCHANGED <<maxRetriesArg, calls, retryResult, managerVars, accessoryVars, serviceVars>>

NextRetry ==
  \/ OperationResolves
  \/ OperationRejects
  \/ DelayElapses

SpecRetry == InitRetry /\ [][NextRetry]_vars

\* ------------------------- ThermostatService: TargetHeatingCoolingState.onSet
\* the control data an API response may carry
ThermalStates == {"standby", "active"}
Responses ==
  {Spread(Spread(InitialControl, "thermal_control_status", state), "set_temperature_f", tempF) :
     state \in ThermalStates, tempF \in FieldValues("set_temperature_f")}

StateOf(control) == control["thermal_control_status"]

\* the result of the handler: the control it returns and the return statement
\* that produced it, or the error it throws
Returned(control, by) == [ok |-> TRUE, value |-> control, by |-> by]
Thrown == [ok |-> FALSE, value |-> Undefined, by |-> "error"]

\* the service as initializeCharacteristics(client, deviceStatus) leaves it
InitThermostat ==
  /\ Fresh
  /\ RetryIdle
  /\ AccessoryIdle
  /\ PollingIdle
  /\ OverlapIdle
  /\ TemperatureIdle
  /\ expectedThermalState = "null"
  /\ serviceStatus \in {Undefined} \cup {[control |-> c] : c \in Responses}
  /\ onSetPc = "idle"
  /\ expectedState = "standby"
  /\ actualState = "standby"
  /\ currentControl = Undefined
  /\ retryCount = 0
  /\ outcomes = <<>>
  /\ observed = <<>>
  /\ onSetResult = Undefined

\* an exhaustion test that lets one more attempt through
exhaustedLate(count) == count > MAX_STATE_MISMATCH_RETRIES

\* if (retryCount >= MAX_STATE_MISMATCH_RETRIES)
exhausted(count) == count >= MAX_STATE_MISMATCH_RETRIES

\* a give-up value that keeps the state of currentControl
acceptedLocal(control, actual) ==
  IF IsDefined(control)
  THEN control
  ELSE [f \in {"thermal_control_status"} |-> actual]

\* currentControl ? { ...currentControl, thermal_control_status: actualState }
\*                : { thermal_control_status: actualState }
accepted(control, actual) ==
  IF IsDefined(control)
  THEN Spread(control, "thermal_control_status", actual)
  ELSE [f \in {"thermal_control_status"} |-> actual]

\* a catch block that rethrows the error once the retries are used up
afterErrorRethrow(count) ==
  IF count + 1 < MAX_STATE_MISMATCH_RETRIES THEN "retry" ELSE "throw"

\* the catch block: if (retryCount + 1 < MAX_STATE_MISMATCH_RETRIES), else
afterError(count) ==
  IF count + 1 < MAX_STATE_MISMATCH_RETRIES THEN "retry" ELSE "accept"

\* handleStateMismatch(client, device, expectedState, actual, currentControl,
\* count) is called: up to its first await, or to its return
handleStateMismatch(actual, control, count) ==
  /\ actualState' = actual
  /\ currentControl' = control
  /\ retryCount' = count
  /\ IF exhausted(count)
     THEN /\ onSetPc' = "returned"
          /\ onSetResult' = Returned(accepted(control, actual), "accepted")
     ELSE /\ onSetPc' = "wait"
          /\ onSetResult' = Undefined

\* HomeKit writes the characteristic: the handler up to await retryApiCall(...)
OnSet ==
  /\ onSetPc \in {"idle", "returned", "thrown"}
  /\ \E value \in {"OFF", "AUTO"} :
       LET target == IF value = "OFF" THEN "standby" ELSE "active"
       IN /\ expectedThermalState' = target
          /\ expectedState' = target
          /\ serviceStatus' =
               IF IsDefined(serviceStatus)
               THEN [control |-> Spread(serviceStatus.control, "thermal_control_status", target)]
               ELSE serviceStatus
  /\ onSetPc' = "set"
  /\ actualState' = "standby"
  /\ currentControl' = Undefined
  /\ retryCount' = 0
  /\ outcomes' = <<>>
  /\ observed' = <<>>
  /\ onSetResult' = Undefined
  /\ UNCHANGED <<managerVars, retryVars, accessoryVars, pollingVars, overlapVars, temperature>>

\* retryApiCall returns a response: lines 85 to 101
SetResponds ==
  /\ onSetPc = "set"
  /\ \E response \in Responses :
       /\ observed' = Append(observed, response)
       /\ IF StateOf(response) # expectedState /\ expectedThermalState = expectedState
          THEN /\ handleStateMismatch(StateOf(response),
                                      IF IsDefined(serviceStatus)
                                      THEN serviceStatus.control ELSE Undefined,
                                      0)
               /\ UNCHANGED expectedThermalState
          ELSE /\ expectedThermalState' = "null"
               /\ onSetPc' = "returned"
               /\ onSetResult' = Returned(response, "response")
               /\ UNCHANGED <<actualState, currentControl, retryCount>>
  /\ UNCHANGED <<serviceStatus, expectedState, outcomes, managerVars, retryVars, accessoryVars, pollingVars, overlapVars, temperature>>

\* retryApiCall throws: the catch block up to await client.getDeviceStatus
SetFails ==
  /\ onSetPc = "set"
  /\ onSetPc' = "refresh"
  /\ UNCHANGED <<expectedThermalState, serviceStatus, expectedState, actualState,
                 currentControl, retryCount, outcomes, observed, onSetResult,
                 managerVars, retryVars, accessoryVars, pollingVars, overlapVars, temperature>>

\* getDeviceStatus of the catch block resolves
RefreshResponds ==
  /\ onSetPc = "refresh"
  /\ \E response \in Responses :
       onSetResult' = Returned(response, "refreshed")
  /\ expectedThermalState' = "null"
  /\ onSetPc' = "returned"
  /\ UNCHANGED <<serviceStatus, expectedState, actualState, currentControl, retryCount,
                 outcomes, observed, managerVars, retryVars, accessoryVars, pollingVars, overlapVars, temperature>>

\* getDeviceStatus of the catch block rejects: throw refreshError
RefreshFails ==
  /\ onSetPc = "refresh"
  /\ onSetPc' = "thrown"
  /\ onSetResult' = Thrown
  /\ UNCHANGED <<expectedThermalState, serviceStatus, expectedState, actualState,
                 currentControl, retryCount, outcomes, observed,
                 managerVars, retryVars, accessoryVars, pollingVars, overlapVars, temperature>>

\* the setTimeout of STATE_MISMATCH_RETRY_DELAY_MS fires: the command is re-issued
MismatchDelayElapses ==
  /\ onSetPc = "wait"
  /\ onSetPc' = "reissue"
  /\ UNCHANGED <<expectedThermalState, serviceStatus, expectedState, actualState,
                 currentControl, retryCount, outcomes, observed, onSetResult,
                 managerVars, retryVars, accessoryVars, pollingVars, overlapVars, temperature>>

\* the re-issued setThermalControlStatus resolves: lines 372 to 380
ReissueResponds ==
  /\ onSetPc = "reissue"
  /\ \E response \in Responses :
       /\ observed' = Append(observed, response)
       /\ IF StateOf(response) = expectedState
          THEN /\ outcomes' = Append(outcomes, "match")
               /\ onSetPc' = "returned"
               /\ onSetResult' = Returned(response, "resolved")
               /\ UNCHANGED <<actualState, currentControl, retryCount>>
          ELSE /\ outcomes' = Append(outcomes, "mismatch")
               /\ handleStateMismatch(StateOf(response), currentControl, retryCount + 1)
  /\ UNCHANGED <<expectedThermalState, serviceStatus, expectedState,
                 managerVars, retryVars, accessoryVars, pollingVars, overlapVars, temperature>>

\* the re-issued setThermalControlStatus rejects: lines 381 to 391; an error
\* leaving handleStateMismatch would be caught by the handler's catch block
ReissueFails ==
  /\ onSetPc = "reissue"
  /\ outcomes' = Append(outcomes, "error")
  /\ CASE afterError(retryCount) = "retry" ->
            handleStateMismatch(actualState, currentControl, retryCount + 1)
       [] afterError(retryCount) = "accept" ->
            /\ onSetPc' = "returned"
            /\ onSetResult' = Returned(accepted(currentControl, actualState), "accepted")
            /\ UNCHANGED <<actualState, currentControl, retryCount>>
       [] OTHER ->
            /\ onSetPc' = "refresh"
            /\ UNCHANGED <<actualState, currentControl, retryCount, onSetResult>>
  /\ UNCHANGED <<expectedThermalState, serviceStatus, expectedState, observed,
                 managerVars, retryVars, accessoryVars, pollingVars, overlapVars, temperature>>

NextThermostat ==
  \/ OnSet
  \/ SetResponds
  \/ SetFails
  \/ RefreshResponds
  \/ RefreshFails
  \/ MismatchDelayElapses
  \/ ReissueResponds
  \/ ReissueFails

SpecThermostat == InitThermostat /\ [][NextThermostat]_vars

\* ------------------------------------------------------------ PollingService
\* the values a configuration may give for the two intervals
ConfiguredSeconds == {0, 4, 5, 6}
ConfiguredMinutes == {0, 1, 2}

\* the statuses a poll may fetch
Statuses ==
  {[control |-> Spread(InitialControl, "thermal_control_status", state)] :
     state \in ThermalStates}

\* the configured active interval taken as it is
activeIntervalMsUnclamped(configured) ==
  IF configured.given
  THEN configured.value * 1000
  ELSE DEFAULT_ACTIVE_POLLING_INTERVAL_SECONDS * 1000

\* the constructor's first block: this.activePollingIntervalMs
activeIntervalMs(configured) ==
  IF configured.given
  THEN IF configured.value < 5 THEN 5 * 1000 ELSE configured.value * 1000
  ELSE DEFAULT_ACTIVE_POLLING_INTERVAL_SECONDS * 1000

\* the constructor's second block: this.standbyPollingIntervalMs
standbyIntervalMs(configured) ==
  IF configured.given
  THEN IF configured.value < 1 THEN 60 * 1000 ELSE configured.value * 60 * 1000
  ELSE DEFAULT_STANDBY_POLLING_INTERVAL_MINUTES * 60 * 1000

\* the poller after new PollingService(log, deviceName, retryService, config)
InitPolling ==
  /\ Fresh
  /\ RetryIdle
  /\ AccessoryIdle
  /\ ThermostatIdle
  /\ OverlapIdle
  /\ TemperatureIdle
  /\ config \in [activePollingIntervalSeconds : {Absent} \cup {Given(v) : v \in ConfiguredSeconds},
                 standbyPollingIntervalMinutes : {Absent} \cup {Given(v) : v \in ConfiguredMinutes}]
  /\ activePollingIntervalMs = activeIntervalMs(config.activePollingIntervalSeconds)
  /\ standbyPollingIntervalMs = standbyIntervalMs(config.standbyPollingIntervalMinutes)
  /\ timeout = Undefined
  /\ polls = <<>>
  /\ currentDeviceStatus = Undefined
  /\ stopped = FALSE
  /\ pollEv = NoPollEvent

getPollingIntervalBasedOnState(isActive) ==
  IF isActive THEN activePollingIntervalMs ELSE standbyPollingIntervalMs

\* scheduleNextPoll(client, deviceId, isActive, onStatusUpdated): the handle
\* this.timeout holds afterwards; the timer it replaces is cleared
scheduleNextPoll(isActive) ==
  [pending |-> TRUE, isActive |-> isActive,
   interval |-> getPollingIntervalBasedOnState(isActive)]

\* a try block that always reschedules with the flag the cycle started with
rescheduledSame(isActive, currentActive) == isActive

\* the flag the try block reschedules with: lines 144 to 160
rescheduledWith(isActive, currentActive) ==
  IF currentActive # isActive THEN currentActive ELSE isActive

\* a catch block that only logs
afterPollErrorOnlyLog(isActive, handle) == handle

\* the catch block: scheduleNextPoll(client, deviceId, isActive, onStatusUpdated)
afterPollError(isActive, handle) == scheduleNextPoll(isActive)

\* the try block without the return of line 153
deliveriesFallThrough(changed, status) ==
  IF changed THEN <<status, status>> ELSE <<status>>

\* the calls of onStatusUpdated the try block makes: line 149 or line 157
deliveries(changed, status) == <<status>>

\* startPolling(client, deviceId, initialIsActive, onStatusUpdated)
StartPolling ==
  /\ \E initialIsActive \in BOOLEAN :
       /\ timeout' = scheduleNextPoll(initialIsActive)
       /\ pollEv' = PollEvent("start", initialIsActive, Undefined, FALSE, FALSE, stopped,
                              <<>>, Len(polls))
  /\ stopped' = FALSE
  /\ UNCHANGED <<config, activePollingIntervalMs, standbyPollingIntervalMs, polls,
                 currentDeviceStatus, managerVars, retryVars, accessoryVars, thermostatVars, overlapVars, temperature>>

\* the calls in flight, marked as overtaken by a cancellation
Cancelled(cycles) == [i \in 1..Len(cycles) |-> [cycles[i] EXCEPT !.cancelled = TRUE]]

\* updatePollingInterval(isActive)
UpdatePollingInterval ==
  /\ \E isActive \in BOOLEAN :
       pollEv' = PollEvent("update", isActive, Undefined, FALSE, FALSE, stopped, <<>>,
                           Len(polls))
  /\ timeout' = Undefined
  /\ polls' = Cancelled(polls)
  /\ stopped' = TRUE
  /\ UNCHANGED <<config, activePollingIntervalMs, standbyPollingIntervalMs,
                 currentDeviceStatus, managerVars, retryVars, accessoryVars, thermostatVars, overlapVars, temperature>>

\* stopPolling()
StopPolling ==
  /\ pollEv' = PollEvent("stop", FALSE, Undefined, FALSE, FALSE, stopped, <<>>, Len(polls))
  /\ timeout' = Undefined
  /\ polls' = Cancelled(polls)
  /\ stopped' = TRUE
  /\ UNCHANGED <<config, activePollingIntervalMs, standbyPollingIntervalMs,
                 currentDeviceStatus, managerVars, retryVars, accessoryVars, thermostatVars, overlapVars, temperature>>

\* the timer fires: the callback up to await retryApiCall(getDeviceStatus)
PollTimerFires ==
  /\ IsDefined(timeout)
  /\ timeout.pending
  /\ Len(polls) < MaxInFlight
  /\ timeout' = [timeout EXCEPT !.pending = FALSE]
  /\ polls' = Append(polls, [isActive |-> timeout.isActive, cancelled |-> FALSE])
  /\ pollEv' = PollEvent("fire", timeout.isActive, Undefined, FALSE, FALSE, stopped, <<>>,
                         Len(polls))
  /\ UNCHANGED <<config, activePollingIntervalMs, standbyPollingIntervalMs,
                 currentDeviceStatus, stopped, managerVars, retryVars, accessoryVars,
                 thermostatVars, overlapVars, temperature>>

\* retryApiCall returns a status: the rest of the try block; onStatusUpdated
\* returns, or throws into the catch block
PollSucceeds ==
  /\ \E i \in 1..Len(polls), status \in Statuses, threw \in BOOLEAN :
       LET isActive == polls[i].isActive
           currentActive == StateOf(status.control) = "active"
       IN /\ currentDeviceStatus' = status
          /\ timeout' = IF threw
                        THEN afterPollError(isActive, timeout)
                        ELSE scheduleNextPoll(rescheduledWith(isActive, currentActive))
          /\ polls' = Remove(polls, i)
          /\ pollEv' = PollEvent("success", isActive, status, threw, polls[i].cancelled,
                                 stopped, deliveries(currentActive # isActive, status),
                                 Len(polls))
  /\ UNCHANGED <<config, activePollingIntervalMs, standbyPollingIntervalMs, stopped,
                 managerVars, retryVars, accessoryVars, thermostatVars, overlapVars, temperature>>

\* retryApiCall throws after its retries: the catch block
PollFails ==
  /\ \E i \in 1..Len(polls) :
       /\ timeout' = afterPollError(polls[i].isActive, timeout)
       /\ polls' = Remove(polls, i)
       /\ pollEv' = PollEvent("failure", polls[i].isActive, Undefined, FALSE,
                              polls[i].cancelled, stopped, <<>>, Len(polls))
  /\ UNCHANGED <<config, activePollingIntervalMs, standbyPollingIntervalMs,
                 currentDeviceStatus, stopped, managerVars, retryVars, accessoryVars,
                 thermostatVars, overlapVars, temperature>>

NextPolling ==
  \/ StartPolling
  \/ UpdatePollingInterval
  \/ StopPolling
  \/ PollTimerFires
  \/ PollSucceeds
  \/ PollFails

SpecPolling == InitPolling /\ [][NextPolling]_vars

TypeOK ==
  /\ processing \in BOOLEAN
  /\ now \in StartTime..(StartTime + MaxTime)
  /\ nSteps \in 0..MaxSteps

\* the state InitConfirmed starts from is one the fresh manager reaches
ConfirmedIdle ==
  /\ queue = <<>>
  /\ deviceStates = <<[NewDeviceState("d1") EXCEPT !.lastSuccessfulState = InitialControl]>>
  /\ ~processing
  /\ scheduledTimeout = NoTimer
  /\ lastProcessTime <= now - consistencyCheckInterval

\* ----------------------------------------------------------------- claims
QueueKeysUnique ==
  \A i, j \in 1..Len(queue) : KeyOf(queue[i]) = KeyOf(queue[j]) => i = j

InFlightKey(key) == \E i \in 1..Len(inflight) : KeyOf(inflight[i]) = key

Settled ==
  \/ ev.kind = "success"
  \/ ev.kind = "error" /\ ev.req.retryCount >= maxRetries

Invoked(id) == \E i \in 1..Len(cbLog) : cbLog[i].id = id

\* the last Len(registered) invocations are those of the registered
\* callbacks, in registration order, each with the given outcome
FannedOut(registered, success) ==
  /\ Len(cbLog) >= Len(registered)
  /\ \A i \in 1..Len(registered) :
       cbLog[Len(cbLog) - Len(registered) + i] = [id |-> registered[i], success |-> success]

\* C1: the enqueues made to one key before the key is dispatched collapse
\* into one queue entry that carries the parameters of the last of them, one
\* dispatch sends that entry and takes it out of the queue.
C1_LastEnqueueWins ==
  /\ QueueKeysUnique
  /\ \A i \in 1..Len(queue) :
       queue[i].retryCount = 0 =>
         /\ lastEnq[KeyOf(queue[i])].n > 0
         /\ queue[i].params = lastEnq[KeyOf(queue[i])].params
  /\ \A k \in Keys : lastEnq[k].n > 0 => QueueHas(queue, k)
  /\ (ev.kind = "dispatch" /\ ev.req.retryCount = 0) =>
       /\ ev.n > 0
       /\ ev.req.params = lastEnq[KeyOf(ev.req)].params
       /\ lastEnq[KeyOf(ev.req)].n = 0
       /\ ~QueueHas(queue, KeyOf(ev.req))

\* active then standby enqueued before any dispatch: one dispatch, with standby
C1_Witness ==
  /\ ev.kind = "dispatch"
  /\ ev.req.operation = "setThermalControlStatus"
  /\ ev.req.params = <<"standby">>
  /\ ev.n = 2
  /\ Len(inflight) = 1
  /\ queue = <<>>

C3_MinInterval ==
  ev.kind = "dispatch" => ev.gap >= minRequestInterval

\* a second dispatch that starts exactly minRequestInterval after the first
C3_Witness ==
  /\ ev.kind = "dispatch"
  /\ ev.gap = minRequestInterval
  /\ lastProcessTime = now

\* C4: at most one API call is in flight, the processing flag is set exactly
\* while one is, a timer that fires meanwhile dispatches nothing, and the
\* flag is lowered after a success and after a failure.
C4_OneInFlight ==
  /\ Len(inflight) <= 1
  /\ processing <=> Len(inflight) = 1
  /\ ev.kind \in {"success", "error"} => ~processing /\ inflight = <<>>

\* a dispatch timer fired while a call was in flight, with a request waiting
C4_Witness ==
  /\ ev.kind = "idle"
  /\ processing
  /\ Len(inflight) = 1
  /\ Len(queue) > 0

\* C5: whenever the queue is non-empty and no dispatch is in flight, a
\* dispatch is scheduled for the moment minRequestInterval has elapsed since
\* the last dispatch start (or for now, when it already has).
C5_DispatchScheduled ==
  (Len(queue) > 0 /\ ~processing) =>
    /\ scheduledTimeout.kind = "process"
    /\ scheduledTimeout.at <= Max(now, lastProcessTime + minRequestInterval)

\* the request the scheduler cannot get to without a further enqueue
C5_Stuck ==
  /\ Len(queue) > 0
  /\ ~processing
  /\ scheduledTimeout = NoTimer

\* C6: when enqueue of a control-changing operation returns, pendingState is
\* the previous pendingState (else lastSuccessfulState, else the empty
\* record) with the field of the operation overwritten by the new parameter.
C6_PendingPatched ==
  [][(ev'.kind = "enqueue" /\ nSteps' = nSteps + 1 /\ ev'.req.operation \in SetOps) =>
       LET d == ev'.req.deviceId
           field == OwnedField(ev'.req.operation)
           before == getDeviceState(deviceStates, d)
           base == IF IsDefined(before.pendingState) THEN before.pendingState
                   ELSE IF IsDefined(before.lastSuccessfulState)
                   THEN before.lastSuccessfulState
                   ELSE EmptyObject
           after == getDeviceState(deviceStates', d).pendingState
       IN /\ StatesHas(deviceStates', d)
          /\ DOMAIN after = (DOMAIN base) \cup {field}
          /\ after[field] = ev'.req.params[1]
          /\ \A f \in (DOMAIN base) \ {field} : after[f] = base[f]]_vars

\* a patch laid over a previous pending patch of another field, with the
\* request not yet dispatched
C6_Witness ==
  /\ ev.kind = "enqueue"
  /\ ev.req.operation = "setThermalControlStatus"
  /\ IsDefined(ev.pre)
  /\ DOMAIN ev.pre = {"set_temperature_f"}
  /\ PendingOf(deviceStates, ev.req.deviceId) =
       [set_temperature_f |-> 70, thermal_control_status |-> ev.req.params[1]]
  /\ ~processing

\* C7: right after a control-set operation succeeds, pendingState is empty
\* and lastSuccessfulState is the control data of that response.
C7_SetSuccessConfirms ==
  (ev.kind = "success" /\ ev.req.operation \in SetOps) =>
    /\ StatesHas(deviceStates, ev.req.deviceId)
    /\ ~IsDefined(PendingOf(deviceStates, ev.req.deviceId))
    /\ getDeviceState(deviceStates, ev.req.deviceId).lastSuccessfulState = ev.data

\* a control-set succeeded on a device that had a pending patch
C7_Witness ==
  /\ ev.kind = "success"
  /\ ev.req.operation = "setThermalControlStatus"
  /\ IsDefined(ev.pre)
  /\ getDeviceState(deviceStates, ev.req.deviceId).lastSuccessfulState["thermal_control_status"]
       = ev.req.params[1]

RequestOutstanding(d) ==
  \/ \E i \in 1..Len(queue) : queue[i].deviceId = d
  \/ \E i \in 1..Len(inflight) : inflight[i].deviceId = d

ControlOutstanding(d) ==
  \/ \E i \in 1..Len(queue) : queue[i].deviceId = d /\ queue[i].operation \in SetOps
  \/ \E i \in 1..Len(inflight) : inflight[i].deviceId = d /\ inflight[i].operation \in SetOps

Reapplied ==
  /\ ev.kind = "success"
  /\ ev.req.operation = "getDeviceStatus"
  /\ IsDefined(ev.pre)
  /\ IsDefined(PendingOf(deviceStates, ev.req.deviceId))

OwnerOp(field) ==
  CASE field = "set_temperature_f" -> "setTemperatureFahrenheit"
    [] field = "set_temperature_c" -> "setTemperatureCelsius"
    [] OTHER -> "setThermalControlStatus"

\* C9: a status fetch finds a mismatch (and re-applies) only when the device
\* differs from the pending patch on a field a caller set through enqueue.
C9_OnlyCallerFieldsCompared ==
  Reapplied =>
    \E f \in callerSet[ev.req.deviceId] : ev.data[f] # ev.pre[f]

\* C10: when a status fetch disagrees with the pending patch on a field a
\* caller set, the set operation that owns the field is in the queue again
\* with the pending value, and the queue never holds more than one request
\* per (device, set operation).
C10_ReapplyOwner ==
  /\ QueueKeysUnique
  /\ Reapplied =>
       \A f \in callerSet[ev.req.deviceId] :
          ev.data[f] # ev.pre[f] =>
            /\ QueueHas(queue, getQueueKey(ev.req.deviceId, OwnerOp(f)))
            /\ QueueGet(queue, getQueueKey(ev.req.deviceId, OwnerOp(f))).params = <<ev.pre[f]>>

Converged ==
  /\ queue = <<>>
  /\ \A d \in Devices : ~IsDefined(PendingOf(deviceStates, d))

\* the scheduler has no timer pending and no API call in flight: nothing
\* happens any more unless a caller enqueues
Quiescent ==
  /\ scheduledTimeout = NoTimer
  /\ ~processing
  /\ inflight = <<>>

\* C11: with callers enqueueing nothing further the scheduler ends with an
\* empty queue and no pending patch; so whenever it has nothing left to do on
\* its own (no timer pending, no call in flight: the state lasts until a
\* caller enqueues again) the queue is empty and no device has a pending patch.
C11_Converges == Quiescent => Converged

\* C12: a request is dispatched with a retry count of at most maxRetries; a
\* failure with retryCount < maxRetries puts the same request back in the
\* queue with retryCount + 1 and invokes no callback; a failure with
\* retryCount = maxRetries invokes the registered callbacks with a failure
\* result and leaves no retry of the request in the queue.
C12_BoundedRetries ==
  /\ \A i \in 1..Len(queue) : queue[i].retryCount <= maxRetries
  /\ \A i \in 1..Len(inflight) : inflight[i].retryCount <= maxRetries
  /\ (ev.kind = "error" /\ ev.req.retryCount < maxRetries) =>
       /\ QueueHas(queue, KeyOf(ev.req))
       /\ QueueGet(queue, KeyOf(ev.req)).retryCount = ev.req.retryCount + 1
       /\ QueueGet(queue, KeyOf(ev.req)).params = ev.req.params
       /\ \A i \in 1..Len(ev.registered) : ~Invoked(ev.registered[i])
  /\ (ev.kind = "error" /\ ev.req.retryCount >= maxRetries) =>
       /\ ev.req.retryCount = maxRetries
       /\ FannedOut(ev.registered, FALSE)
       /\ QueueHas(queue, KeyOf(ev.req)) => QueueGet(queue, KeyOf(ev.req)).retryCount = 0

\* the attempt made with retryCount = maxRetries failed: the caller is told
C12_Witness ==
  /\ ev.kind = "error"
  /\ ev.req.retryCount = maxRetries
  /\ Len(ev.registered) = 1
  /\ cbLog = <<[id |-> ev.registered[1], success |-> FALSE]>>
  /\ queue = <<>>

\* the first n invocations of the operation all failed
FirstFailed(n) ==
  /\ Len(calls) >= n
  /\ \A i \in 1..n : ~calls[i].ok

LastCall == calls[Len(calls)]

\* C13 as stated: with maxRetries = 3, once the first three attempts have
\* failed the call never returns a result (the success of a fourth attempt is
\* not delivered).
C13_FourthSuccessDropped ==
  (retryPc # "none" /\ maxRetriesArg = 3 /\ FirstFailed(3)) => retryPc # "returned"

\* C13 amended: with maxRetries = 3, after three failed attempts no failure
\* is surfaced yet, a fourth attempt is made and it decides: its result is
\* returned when it succeeds, its error is thrown when it fails.
C13_FourthAttemptDecides ==
  (retryPc # "none" /\ maxRetriesArg = 3 /\ FirstFailed(3)) =>
    /\ Len(calls) = 3 => retryPc \in {"delay", "operation"} /\ retryResult = Undefined
    /\ Len(calls) >= 4 =>
         /\ Len(calls) = 4
         /\ retryPc = (IF calls[4].ok THEN "returned" ELSE "thrown")
         /\ retryResult = calls[4]

\* three failures, then the fourth attempt succeeds and its result is returned
C13_Witness ==
  /\ maxRetriesArg = 3
  /\ FirstFailed(3)
  /\ Len(calls) = 4
  /\ calls[4].ok
  /\ retryPc = "returned"
  /\ retryResult = [ok |-> TRUE, value |-> "r2"]

\* C19: the operation is invoked again only after a failure, at most
\* maxRetries + 1 times in all; the call returns the result of the first
\* invocation that succeeds, and throws, after maxRetries + 1 failures, the
\* error of the last of them.
C19_RetryUntilSuccess ==
  retryPc # "none" =>
    /\ Len(calls) <= maxRetriesArg + 1
    /\ \A i \in 1..(Len(calls) - 1) : ~calls[i].ok
    /\ currentAttempt = (IF retryPc = "operation" THEN Len(calls) + 1 ELSE Len(calls))
    /\ retryPc = "delay" => ~LastCall.ok /\ Len(calls) <= maxRetriesArg
    /\ retryPc = "returned" => LastCall.ok /\ retryResult = LastCall
    /\ retryPc = "thrown" =>
         /\ Len(calls) = maxRetriesArg + 1
         /\ ~LastCall.ok
         /\ retryResult = LastCall
    /\ retryPc \in {"operation", "delay"} => retryResult = Undefined

\* every allowed attempt failed, the last with another error than the first
C19_Witness ==
  /\ retryPc = "thrown"
  /\ maxRetriesArg = 2
  /\ Len(calls) = 3
  /\ calls[1].value = "e1"
  /\ retryResult = [ok |-> FALSE, value |-> "e2"]

RECURSIVE Sum(_)
Sum(seq) == IF seq = <<>> THEN 0 ELSE seq[1] + Sum(Tail(seq))

\* C20: the wait after the first failed attempt is INITIAL_RETRY_DELAY_MS
\* (15 s) and each later wait is twice the one before (30 s, 60 s); a call
\* with maxRetries = 3 that throws has waited 15 + 30 + 60 = 105 s in all.
C20_BackoffDelays ==
  retryPc # "none" =>
    /\ Len(waits) = currentAttempt - 1
    /\ Len(waits) >= 1 => waits[1] = 15000
    /\ Len(waits) >= 2 => waits[2] = 30000
    /\ Len(waits) >= 3 => waits[3] = 60000
    /\ \A k \in 1..(Len(waits) - 1) : waits[k + 1] = 2 * waits[k]
    /\ (retryPc = "thrown" /\ maxRetriesArg = 3) => Sum(waits) = 105000

\* a call with the default maxRetries gave up after 105 s of waiting
C20_Witness ==
  /\ retryPc = "thrown"
  /\ maxRetriesArg = MAX_RETRIES
  /\ waits = <<15000, 30000, 60000>>
  /\ Sum(waits) = 105000

\* C14: a control request whose failure was fanned out is not sent again
\* unless a caller enqueues it again: the scheduler itself never puts a
\* request of that key in the queue or in flight.
C14_NoResendAfterFailure ==
  \A k \in givenUp : ~QueueHas(queue, k) /\ ~InFlightKey(k)

\* C15: a request re-enqueued after a failure is not dispatched before the
\* time its retry was put off to (the failure time plus retryBackoff times
\* its new retry count, which is the timestamp handleError gave it).
C15_BackoffBeforeRetry ==
  (ev.kind = "dispatch" /\ ev.req.retryCount > 0) =>
    lastProcessTime >= ev.req.timestamp

\* C16: the consistency check runs only with an empty queue: a request that
\* was enqueued after the check was scheduled and is still queued keeps the
\* check from running (ev.n is the length of the queue the check found).
C16_CheckOnlyWhenIdle ==
  ev.kind = "check" => ev.n = 0

\* C17: the request a dispatch sends has the smallest timestamp of the queue
\* (no request left in the queue has a strictly smaller one), and when the
\* API call is issued the request is in flight and no longer in the queue.
C17_OldestFirst ==
  ev.kind = "dispatch" =>
    /\ \A i \in 1..Len(queue) : queue[i].timestamp >= ev.req.timestamp
    /\ ~QueueHas(queue, KeyOf(ev.req))
    /\ inflight = <<ev.req>>

\* a dispatch that left a younger request of another key in the queue
C17_Witness ==
  /\ ev.kind = "dispatch"
  /\ Len(queue) >= 1
  /\ KeyOf(queue[1]) # KeyOf(ev.req)
  /\ queue[1].timestamp > ev.req.timestamp
  /\ inflight = <<ev.req>>

\* C18: the accessory's writes to the control data it received in a callback
\* result leave the scheduler's lastSuccessfulState as it was: after an onSet
\* handler (write to this.deviceStatus.control, then enqueue, which never
\* assigns lastSuccessfulState) it is what it was before the handler.
C18_NotAliased ==
  ev.kind = "onSet" => LastSuccessfulOf(deviceStates, ev.req.deviceId) = ev.data

\* the fetched control agrees with the patch on every field present in the patch
Agrees(control, patch) ==
  \A f \in DOMAIN patch : f \in DOMAIN control /\ control[f] = patch[f]

\* the step is the success of a getDeviceStatus request
StatusFetched ==
  /\ Len(inflight') < Len(inflight)
  /\ ev'.kind = "success"
  /\ ev'.req.operation = "getDeviceStatus"

\* C30: a getDeviceStatus response that agrees with pendingState on every
\* field present in it makes the fetched control the lastSuccessfulState,
\* clears pendingState and enqueues nothing; a response for a device with no
\* pendingState changes neither pendingState nor lastSuccessfulState.
C30_MatchingStatusConfirms ==
  [][StatusFetched =>
       LET d == ev'.req.deviceId
           pending == PendingOf(deviceStates, d)
       IN IF IsDefined(pending)
          THEN Agrees(ev'.data, pending) =>
                 /\ LastSuccessfulOf(deviceStates', d) = ev'.data
                 /\ ~IsDefined(PendingOf(deviceStates', d))
                 /\ queue' = queue
          ELSE /\ ~IsDefined(PendingOf(deviceStates', d))
               /\ LastSuccessfulOf(deviceStates', d) = LastSuccessfulOf(deviceStates, d)]_vars

\* a status response agreed with a pending patch, which was cleared
C30_Witness ==
  /\ ev.kind = "success"
  /\ ev.req.operation = "getDeviceStatus"
  /\ IsDefined(ev.pre)
  /\ Agrees(ev.data, ev.pre)
  /\ LastSuccessfulOf(deviceStates, ev.req.deviceId) = ev.data
  /\ ~IsDefined(PendingOf(deviceStates, ev.req.deviceId))

\* the handler's first response mismatched: handleStateMismatch was called
MismatchEntered ==
  /\ Len(observed) >= 1
  /\ StateOf(observed[1]) # expectedState

LastObserved == observed[Len(observed)]

\* C21: handleStateMismatch terminates: it re-issues the command at most
\* MAX_STATE_MISMATCH_RETRIES times, a mismatching response and a transport
\* error each consuming exactly one retry, and a match ending it.
C21_MismatchTerminates ==
  /\ Len(outcomes) <= MAX_STATE_MISMATCH_RETRIES
  /\ \A i \in 1..(Len(outcomes) - 1) : outcomes[i] # "match"
  /\ onSetPc \in {"wait", "reissue"} =>
       /\ retryCount = Len(outcomes)
       /\ retryCount < MAX_STATE_MISMATCH_RETRIES
  /\ (onSetPc = "returned" /\ onSetResult.by = "accepted") =>
       /\ Len(outcomes) = MAX_STATE_MISMATCH_RETRIES
       /\ outcomes[Len(outcomes)] # "match"

\* the retries ran out on a mixture of mismatches and transport errors
C21_Witness ==
  /\ onSetPc = "returned"
  /\ onSetResult.by = "accepted"
  /\ \E i, j \in 1..Len(outcomes) : outcomes[i] = "mismatch" /\ outcomes[j] = "error"

\* C22: on exhaustion the returned control reports the state of the most
\* recent successful response (the first response if every re-issue failed),
\* never the expected state; on a match the response's control data is returned.
C22_AcceptsObserved ==
  onSetPc = "returned" =>
    /\ onSetResult.by = "accepted" =>
         /\ StateOf(onSetResult.value) = StateOf(LastObserved)
         /\ StateOf(onSetResult.value) # expectedState
    /\ onSetResult.by = "resolved" =>
         /\ onSetResult.value = LastObserved
         /\ StateOf(onSetResult.value) = expectedState

\* every re-issue failed, and the optimistically updated control was at hand
C22_Witness ==
  /\ onSetPc = "returned"
  /\ onSetResult.by = "accepted"
  /\ IsDefined(currentControl)
  /\ StateOf(currentControl) = expectedState
  /\ Len(observed) = 1
  /\ \A i \in 1..Len(outcomes) : outcomes[i] = "error"

\* C23: a state mismatch is never surfaced as a failure: once entered,
\* handleStateMismatch returns a control and the handler neither reaches its
\* catch block nor throws.
C23_NeverRejects ==
  MismatchEntered =>
    /\ onSetPc \notin {"refresh", "thrown"}
    /\ onSetPc = "returned" =>
         /\ onSetResult.ok
         /\ onSetResult.by \in {"resolved", "accepted"}
         /\ "thermal_control_status" \in DOMAIN onSetResult.value

\* the last re-issue failed after an earlier one had mismatched
C23_Witness ==
  /\ MismatchEntered
  /\ onSetPc = "returned"
  /\ Len(outcomes) = MAX_STATE_MISMATCH_RETRIES
  /\ outcomes[Len(outcomes)] = "error"
  /\ \E i \in 1..Len(outcomes) : outcomes[i] = "mismatch"

\* C24: when a re-issue's response matches the expected state, the handler
\* completes with expectedThermalState null.
C24_ExpectationCleared ==
  (onSetPc = "returned" /\ onSetResult.by = "resolved") => expectedThermalState = "null"

\* the last step completed a poll cycle
CycleCompleted == pollEv.kind \in {"success", "failure"}

\* the cycle failed: its fetch failed after all retries, or the callback threw
CycleFailed == pollEv.kind = "failure" \/ (pollEv.kind = "success" /\ pollEv.threw)

\* the next poll is scheduled, for the activity flag isActive
ScheduledFor(isActive) ==
  /\ IsDefined(timeout)
  /\ timeout.pending
  /\ timeout.isActive = isActive
  /\ timeout.interval = IF isActive THEN activePollingIntervalMs ELSE standbyPollingIntervalMs

\* the activity flag the fetched status implies
FetchedActive == StateOf(pollEv.status.control) = "active"

\* C25: polling never stops on error: every poll cycle, whether its fetch
\* succeeded, failed after all retries or the update callback threw, is
\* followed by a scheduled poll, and a failed cycle keeps the activity flag
\* and the interval it ran with.
C25_PollingContinues ==
  CycleCompleted =>
    /\ IsDefined(timeout)
    /\ timeout.pending
    /\ CycleFailed => ScheduledFor(pollEv.isActive)

\* a fetch failed in a loop nobody cancelled, and the next poll is scheduled
C25_Witness ==
  /\ pollEv.kind = "failure"
  /\ ~pollEv.cancelled
  /\ ~stopped
  /\ ScheduledFor(pollEv.isActive)

C27_StaysStopped ==
  pollEv.kind = "fire" => ~pollEv.stopped

\* C28: a cancellation leaves the calls in flight to complete, and a call
\* that succeeds after it delivers its status to the update callback exactly
\* once.
C28_StrayUpdateDelivered ==
  /\ pollEv.kind \in {"stop", "update"} => Len(polls) = pollEv.n
  /\ (pollEv.kind = "success" /\ pollEv.cancelled) => pollEv.delivered = <<pollEv.status>>

\* a call overtaken by a cancellation fetched a changed state and delivered it
C28_Witness ==
  /\ pollEv.kind = "success"
  /\ pollEv.cancelled
  /\ FetchedActive # pollEv.isActive
  /\ pollEv.delivered = <<pollEv.status>>
  /\ currentDeviceStatus = pollEv.status

C31_RetryKeepsNewest ==
  (/\ ev.kind = "error"
   /\ lastEnq[KeyOf(ev.req)].n > 0
   /\ QueueHas(queue, KeyOf(ev.req))) =>
     QueueGet(queue, KeyOf(ev.req)).params = lastEnq[KeyOf(ev.req)].params

\* C32: a callback is invoked only with the outcome of an API call that
\* carried the parameters of its own enqueue or of a later one: the callback
\* of the newest enqueue of a key, registered after the completed request was
\* dispatched, is not completed with that older request's result.
C32_CallbackGetsOwnOutcome ==
  LET newest == lastEnq[KeyOf(ev.req)]
  IN (/\ ev.kind \in {"success", "error"}
      /\ newest.n > 0
      /\ newest.cb # 0
      /\ Invoked(newest.cb)) =>
        ev.req.params = newest.params

\* ------------------------------------------------- the reliable environment
\* every API call succeeds, the device applies every command and nothing but
\* the manager's own commands changes the device
NextReliable ==
  \/ CallerEnqueue(CallerOps)
  \/ TimerDispatch
  \/ TimerNoDispatch
  \/ TimerCheck
  \/ ApiSuccess
  \/ Tick

SpecReliable == (Init \/ InitConfirmed) /\ [][NextReliable]_vars

\* C33: while every API call succeeds and the device applies every command,
\* each set request the manager dispatches carries the parameters a caller
\* enqueued for that operation since the operation was last dispatched
C33_NoAmplification ==
  (/\ ev.kind = "dispatch"
   /\ ev.req.operation \in SetOps) =>
     ev.registered = ev.req.params

\* C34: whenever a control-changing request is in the queue, its device's
\* pendingState is defined and the field the operation owns holds the queued
\* request's parameter
C34_QueuedSetIsPending ==
  \A i \in 1..Len(queue) :
     queue[i].operation \in SetOps =>
       /\ StatesHas(deviceStates, queue[i].deviceId)
       /\ IsDefined(PendingOf(deviceStates, queue[i].deviceId))
       /\ OwnedField(queue[i].operation) \in DOMAIN PendingOf(deviceStates, queue[i].deviceId)
       /\ PendingOf(deviceStates, queue[i].deviceId)[OwnedField(queue[i].operation)]
            = queue[i].params[1]

\* C35: right after a dispatch for a device fails the device's lastError is
\* set, and right after a dispatch for the device succeeds, status fetch or
\* control operation, it is absent
C35_LastErrorFollowsOutcome ==
  /\ ev.kind = "error" =>
       IsDefined(getDeviceState(deviceStates, ev.req.deviceId).lastError)
  /\ ev.kind = "success" =>
       (StatesHas(deviceStates, ev.req.deviceId) =>
          ~IsDefined(getDeviceState(deviceStates, ev.req.deviceId).lastError))

\* C36: the manager has at most one timer pending, and scheduledTimeout is
\* non-null exactly when a timer is pending
C36_OneTimer ==
  /\ timers \in {0, 1}
  /\ scheduledTimeout # NoTimer <=> timers = 1

\* a caller enqueued while the consistency-check timer was pending
C36_Witness ==
  /\ ev.kind = "enqueue"
  /\ scheduledTimeout.kind = "check"
  /\ timers = 1

\* the poll loops alive: the cycles in flight that no stopPolling or
\* updatePollingInterval overtook, and the pending timer
LoopsRunning ==
  Len(SelectSeq(polls, LAMBDA c : ~c.cancelled))
    + (IF IsDefined(timeout) /\ timeout.pending THEN 1 ELSE 0)

\* C37: a poller never has two poll loops alive, whatever the interleaving of
\* startPolling, stopPolling, updatePollingInterval, timer firings and
\* completions
C37_OneLoop == LoopsRunning <= 1

\* ------------------------------------- overlapping calls of the onSet handler
\* HomeKit may write TargetHeatingCoolingState again while an earlier call of
\* the async handler still awaits retryApiCall.  Each call closes over its own
\* targetState; a call of setThermalControlStatus that succeeds is applied by
\* the device and answered with the state it asked for.
InitOverlap ==
  /\ Fresh
  /\ RetryIdle
  /\ AccessoryIdle
  /\ ThermostatIdle
  /\ PollingIdle
  /\ OverlapIdle
  /\ TemperatureIdle

thermostatRest == <<serviceStatus, onSetPc, expectedState, actualState, currentControl,
                    retryCount, outcomes, observed, onSetResult>>

\* () => client.setThermalControlStatus(device.id, targetState), invoked by
\* handler call i
setThermalControlOperation(log, i, targetState) ==
  Append(log, [by |-> i, state |-> targetState])

\* if (currentAttempt <= maxRetries)
canRetry(attempt) == attempt <= MAX_RETRIES

\* HomeKit writes the characteristic: a new handler call up to its await of
\* retryApiCall, whose first statement invokes the operation
OverlapOnSet ==
  /\ Len(handlers) < MaxHandlers
  /\ \E value \in {"OFF", "AUTO"} :
       LET targetState == IF value = "OFF" THEN "standby" ELSE "active"
       IN /\ expectedThermalState' = targetState
          /\ handlers' = Append(handlers, [targetState |-> targetState, attempt |-> 1,
                                            pc |-> "operation"])
          /\ sentLog' = setThermalControlOperation(sentLog, Len(handlers) + 1, targetState)
  /\ UNCHANGED <<thermal, thermostatRest, managerVars, retryVars, accessoryVars,
                 pollingVars, temperature>>

\* the call of handler call i succeeds: the device applies the state, the
\* response reports it, and the handler resets expectedThermalState and returns
OverlapSetResponds ==
  /\ \E i \in 1..Len(handlers) :
       /\ handlers[i].pc = "operation"
       /\ thermal' = handlers[i].targetState
       /\ handlers' = [handlers EXCEPT ![i].pc = "returned"]
  /\ expectedThermalState' = "null"
  /\ UNCHANGED <<sentLog, thermostatRest, managerVars, retryVars, accessoryVars,
                 pollingVars, temperature>>

\* the call of handler call i fails: retryApiCall waits for its backoff delay,
\* or rethrows into the handler's catch block, which fetches the status
OverlapSetFails ==
  /\ \E i \in 1..Len(handlers) :
       /\ handlers[i].pc = "operation"
       /\ handlers' = [handlers EXCEPT ![i].pc = IF canRetry(handlers[i].attempt)
                                                 THEN "delay" ELSE "refresh"]
  /\ UNCHANGED <<thermal, sentLog, thermostatVars, managerVars, retryVars, accessoryVars,
                 pollingVars, temperature>>

\* the backoff delay of handler call i is over: retryApiCall calls itself and
\* invokes the operation again
OverlapDelayElapses ==
  /\ \E i \in 1..Len(handlers) :
       /\ handlers[i].pc = "delay"
       /\ handlers' = [handlers EXCEPT ![i].pc = "operation", ![i].attempt = @ + 1]
       /\ sentLog' = setThermalControlOperation(sentLog, i, handlers[i].targetState)
  /\ UNCHANGED <<thermal, thermostatVars, managerVars, retryVars, accessoryVars,
                 pollingVars, temperature>>

\* getDeviceStatus of the catch block of handler call i responds
OverlapRefreshResponds ==
  /\ \E i \in 1..Len(handlers) :
       /\ handlers[i].pc = "refresh"
       /\ handlers' = [handlers EXCEPT ![i].pc = "returned"]
  /\ expectedThermalState' = "null"
  /\ UNCHANGED <<thermal, sentLog, thermostatRest, managerVars, retryVars, accessoryVars,
                 pollingVars, temperature>>

\* getDeviceStatus of the catch block of handler call i rejects
OverlapRefreshFails ==
  /\ \E i \in 1..Len(handlers) :
       /\ handlers[i].pc = "refresh"
       /\ handlers' = [handlers EXCEPT ![i].pc = "thrown"]
  /\ UNCHANGED <<thermal, sentLog, thermostatVars, managerVars, retryVars, accessoryVars,
                 pollingVars, temperature>>

NextOverlap ==
  \/ OverlapOnSet
  \/ OverlapSetResponds
  \/ OverlapSetFails
  \/ OverlapDelayElapses
  \/ OverlapRefreshResponds
  \/ OverlapRefreshFails

SpecOverlap == InitOverlap /\ [][NextOverlap]_vars

\* C38: a handler call never sends its state after a later handler call has
\* sent a different one
C38_NoStaleCommand ==
  \A j \in 1..Len(sentLog), k \in 1..Len(sentLog) :
     (j < k /\ sentLog[j].by > sentLog[k].by) => sentLog[j].state = sentLog[k].state

\* ------------------------------------------ the target temperature mapping
\* setProps({minValue: 12, maxValue: 46.7, minStep: 0.5}): the values HomeKit
\* can write, in tenths of a degree Celsius
TargetTemperatureTenths == {120 + 5 * k : k \in 0..69} \cup {467}

\* Math.round((tempC * (9 / 5)) + 32) for tempC given in tenths: the nearest
\* whole number, a half rounding up
roundedFahrenheit(tempC) == (18 * tempC + 3250) \div 100

\* TargetTemperature onGet: 46.7 and 12.2 for the two markers, else
\* set_temperature_c
displayTempC(control) ==
  IF control.set_temperature_f >= HIGH_TEMP_TARGET_F THEN 467
  ELSE IF control.set_temperature_f <= LOW_TEMP_TARGET_F THEN 122
  ELSE control.set_temperature_c

InitTemperature ==
  /\ Fresh
  /\ RetryIdle
  /\ AccessoryIdle
  /\ ThermostatIdle
  /\ PollingIdle
  /\ OverlapIdle
  /\ \E tempC \in TargetTemperatureTenths : temperature = NoWrite(tempC)

temperatureRest == <<managerVars, retryVars, accessoryVars, thermostatVars, pollingVars,
                     overlapVars>>

\* HomeKit writes tempC: the handler up to enqueueSetTemperatureFahrenheit
OnSetTemperature ==
  /\ temperature.pc = "write"
  /\ temperature' =
       [temperature EXCEPT !.pc = "enqueued",
                           !.apiTemp = apiTemperature(roundedFahrenheit(temperature.tempC))]
  /\ UNCHANGED temperatureRest

\* the device confirms a control: the temperature enqueued, or a marker value
\* set from elsewhere
TemperatureConfirmed ==
  /\ temperature.pc = "enqueued"
  /\ \E f \in {temperature.apiTemp, HIGH_TEMP_TARGET_F + 1, LOW_TEMP_TARGET_F - 1} :
       temperature' =
         [temperature EXCEPT !.pc = "confirmed",
                             !.control = [set_temperature_f |-> f,
                                          set_temperature_c |-> temperature.tempC]]
  /\ UNCHANGED temperatureRest

\* HomeKit reads the characteristic
OnGetTemperature ==
  /\ temperature.pc = "confirmed"
  /\ temperature' = [temperature EXCEPT !.pc = "shown",
                                        !.shown = displayTempC(temperature.control)]
  /\ UNCHANGED temperatureRest

NextTemperature ==
  \/ OnSetTemperature
  \/ TemperatureConfirmed
  \/ OnGetTemperature

SpecTemperature == InitTemperature /\ [][NextTemperature]_vars

\* C39: the Fahrenheit value enqueued is 999 when the rounded value is above
\* 115, -1 when it is below 55 and the rounded value otherwise, so it lies
\* in {-1} \cup 55..115 \cup {999}; a confirmed set_temperature_f of 999 or
\* more is shown as 46.7 degrees and one of -1 or less as 12.2 degrees
C39_TemperatureMapping ==
  LET tempF == roundedFahrenheit(temperature.tempC)
  IN /\ temperature.pc # "write" =>
          /\ tempF > 115 => temperature.apiTemp = 999
          /\ tempF < 55 => temperature.apiTemp = -1
          /\ tempF \in 55..115 => temperature.apiTemp = tempF
          /\ temperature.apiTemp \in {-1} \cup 55..115 \cup {999}
     /\ temperature.pc = "shown" =>
          /\ temperature.control.set_temperature_f >= 999 => temperature.shown = 467
          /\ temperature.control.set_temperature_f <= -1 => temperature.shown = 122

\* 46.5 degrees was written, 999 enqueued and confirmed, and 46.7 shown
C39_Witness ==
  /\ temperature.pc = "shown"
  /\ temperature.tempC = 465
  /\ temperature.apiTemp = 999
  /\ temperature.control.set_temperature_f = 999
  /\ temperature.shown = 467
====
